---------------------------- MODULE Spec2Model ----------------------------
(***************************************************************************)
(* Model of the ghostsweep-api sweep pipeline.                             *)
(*                                                                         *)
(*   SpecRetry  retryWithBackoff around one metadata request               *)
(*              (utils/encryption.ts, fetch-metadata-for-messages part)    *)
(*   SpecToken  the two withTokenRefresh calls of one sweep (worker.ts)    *)
(*   Spec       processNextJob / processSweep run by overlapping           *)
(*              invocations against the job table (worker.ts)              *)
(*   SpecFetch  fetchMetadataForMessages: batches, workers, progress       *)
(*   FairFetch  SpecFetch with weak fairness on its steps                  *)
(*   SpecList   listEmails: queries, pages, fallback                       *)
(*   SpecCanon  extractEmailAddress / extractDomain                        *)
(*   SpecScore  calculateConfidenceScore / isLikelySpam                    *)
(*   SpecScan   getIncrementalScanDate                                     *)
(*   SpecData   processSweep from the summaries to the completed row       *)
(*   SpecSum    summarizeByDomain and the ranking of its result            *)
(*   SpecPair   SpecSum beside the service resolution of another sweep     *)
(*   SpecSolo   Spec without overlapping invocations                       *)
(*   FairSolo   SpecSolo with weak fairness on its steps                   *)
(*   SpecRerun  SpecFetch inside withTokenRefresh, with the progress       *)
(*              updates of the job row                                     *)
(*                                                                         *)
(* Every await of the TypeScript code is a suspension point; the code      *)
(* between two awaits runs atomically (single-threaded event loop), so     *)
(* each action below is one such stretch of code.                          *)
(***************************************************************************)
EXTENDS Integers, Sequences, FiniteSets, TLC

VARIABLES
    \* ---- retryWithBackoff (one metadata request) ----
    rPc,            \* "call" | "sleep" | "returned" | "thrown"
    attempt,        \* loop variable `attempt`
    lastErr,        \* `lastErr`
    rHist,          \* history: provider response of every attempt so far
    rSleeps,        \* history: the delays slept, in order
    \* ---- withTokenRefresh (two calls of one sweep) ----
    tPc,            \* position inside withTokenRefresh / ensureValidAccessToken
    callNo,         \* 1 = listing call, 2 = metadata call of processSweep
    cred,           \* gmail_accounts row in the store
    gmailAccount,   \* the row as loaded once by processSweep (in memory)
    accessToken,    \* local `accessToken`
    refreshed,      \* local `refreshed`: result of the last token exchange
    newExpiry,      \* local `newExpiryIso`, in seconds (0 before any exchange)
    now,            \* clock, in seconds
    nextTok,        \* next access token the OAuth endpoint will issue
    tErr,           \* error thrown out of withTokenRefresh
    opTokens,       \* history: token of every invocation of fn in this call
    opErrs,         \* history: outcome of every finished invocation of fn
    opResps,        \* history: provider response behind every outcome
    proCount,       \* history: proactive exchanges attempted in this call
    reCount,        \* history: reactive exchanges attempted in this call
    lastPersist,    \* history: "none" | "ok" | "failed", last credential write
    prevTok,        \* history: newest refreshed token when this call began
    prevExp,        \* history: its expiry instant (0 if none)
    \* ---- processNextJob / processSweep ----
    jobs,           \* sweep_events rows
    inv,            \* the processNextJob invocations
    notes,          \* user_notifications rows, per job whose sweep inserted them
    written,        \* per job: sweep results written to the store
    \* ---- fetchMetadataForMessages / getEmailMetadataBatch ----
    fPc,            \* "call" | "wait" (awaiting the batch) | "delay" | "returned" | "thrown"
    total,          \* messageIds.length; the identifiers are 1..total
    fI,             \* loop variable `i` of fetchMetadataForMessages
    results,        \* `results` of fetchMetadataForMessages
    fErr,           \* the error fetchMetadataForMessages rejected with
    progress,       \* the onProgress reports, in order
    index,          \* shared cursor `index` of the running batch
    batchResults,   \* `results` of the running getEmailMetadataBatch
    errors,         \* `errors` of the running getEmailMetadataBatch
    wk,             \* the workers of the running batch
    out,            \* history: per identifier, how its request ended:
                    \* "none" | "ok" | "auth" | "failed" | "exhausted"
    authOrder,      \* history: identifiers answered with an auth error, in order
    \* ---- listEmails ----
    lPc,            \* "keyword" | "sender" (query being paged) | "returned" | "thrown"
    messages,       \* `messages` of the running fetchMessageIds
    pageCount,      \* `pageCount` of the running fetchMessageIds
    keywordMessages,\* result of the keyword query while the fallback runs
    lErr,           \* the error listEmails rejected with
    listed,         \* the sequence listEmails returned
    lastPage,       \* history: size and cursor of the page received last
    lastResp,       \* history: the list response received last
    queries,        \* history: per finished query, its requests and its result
    \* ---- extractDomain ----
    cPc,            \* "address" | "domain" | "called twice" | "done"
    host,           \* the host of a sender address, as its labels
    domain,         \* extractDomain of an address at `host`
    again,          \* extractDomain of an address at `domain`
    same,           \* extractDomain of an address at `host`, called once more
    \* ---- calculateConfidenceScore / isLikelySpam ----
    sPc,            \* "summary" | "reordered" | "done"
    summary,        \* a domain summary
    reordered,      \* the same summary, its subjects in another order
    verdict,        \* score and spam verdict of `summary`
    verdictR,       \* score and spam verdict of `reordered`
    \* ---- data path of processSweep ----
    dPc,            \* position in processSweep
    clock,          \* the current instant, in hours
    userSweeps,     \* the user's earlier sweep_events rows
    currentPlan,    \* `currentPlan`
    lastScanDate,   \* `lastScanDate`
    isIncremental,  \* `isIncremental`
    dateFilter,     \* `dateFilter` of listEmails
    domainSummaries,    \* `domainSummaries`
    filteredSummaries,  \* `filteredSummaries`, sorted
    lookup,         \* history: what the breach lookup came to
    breaches,       \* breaches.length
    totalAccountsFound, \* `totalAccountsFound`
    accountsToSave, \* `accountsToSave`
    userServices,   \* user_services rows of the user, by service
    priorServices,  \* history: user_services when the sweep began
    metricsRow,     \* the sweep_metrics row of this sweep
    job,            \* the sweep_events row of this sweep
    \* ---- summarizeByDomain and the ranking of processSweep ----
    aPc,            \* "group" | "select" | "insert" | "rank" | "ranked" | "thrown"
    metadataList,   \* `metadataList`
    map,            \* the entries of `map`, in insertion order
    aResults,       \* `results` of summarizeByDomain
    services,       \* the services table: the rows of every domain, each
                    \* row as its default_privacy_email
    ranked,         \* `filteredSummaries` after the sort
    servicesError,  \* local `servicesError` of the loop body: whether set
    oPc,            \* another sweep: "idle" | "select" | "insert" | "done" | "thrown"
    oDomain,        \* the domain the other sweep resolves
    \* ---- the progress callback of processSweep ----
    reran,          \* withTokenRefresh has invoked the metadata fetch again
    landed,         \* indexes of `progress` whose update the store has applied
    jobProgress,    \* column progress of the sweep_events row
    jStatus         \* column status of that row: "processing" | "completed" | "failed"

retryVars == <<rPc, attempt, lastErr, rHist, rSleeps>>
tokenVars == <<tPc, callNo, cred, gmailAccount, accessToken, refreshed,
               newExpiry, now,
               nextTok, tErr, opTokens, opErrs, opResps, proCount, reCount,
               lastPersist, prevTok, prevExp>>
sweepVars == <<jobs, inv, notes, written>>
fetchVars == <<fPc, total, fI, results, fErr, progress, index, batchResults,
               errors, wk, out, authOrder>>
listVars == <<lPc, messages, pageCount, keywordMessages, lErr, listed,
              lastPage, lastResp, queries>>
canonVars == <<cPc, host, domain, again, same>>
scoreVars == <<sPc, summary, reordered, verdict, verdictR>>
dataVars == <<dPc, clock, userSweeps, currentPlan, lastScanDate, isIncremental,
              dateFilter, domainSummaries, filteredSummaries, lookup, breaches,
              totalAccountsFound, accountsToSave, userServices, priorServices,
              metricsRow, job>>
sumVars == <<aPc, metadataList, map, aResults, services, ranked, servicesError,
            oPc,
            oDomain>>
progVars == <<reran, landed, jobProgress, jStatus>>
coreVars == <<retryVars, tokenVars, sweepVars>>
restVars == <<fetchVars, listVars, canonVars, scoreVars, dataVars, sumVars,
              progVars>>
\* everything outside one part
rerunRest == <<coreVars, listVars, canonVars, scoreVars, dataVars, sumVars>>
fetchRest == <<rerunRest, progVars>>
listRest == <<coreVars, fetchVars, canonVars, scoreVars, dataVars, sumVars,
              progVars>>
canonRest == <<coreVars, fetchVars, listVars, scoreVars, dataVars, sumVars,
               progVars>>
scoreRest == <<coreVars, fetchVars, listVars, canonVars, dataVars, sumVars,
               progVars>>
dataRest == <<coreVars, fetchVars, listVars, canonVars, scoreVars, sumVars,
              progVars>>
sumRest == <<coreVars, fetchVars, listVars, canonVars, scoreVars, dataVars,
             progVars>>
vars == <<coreVars, restVars>>

-----------------------------------------------------------------------------
(* Error values.  A JavaScript error is the fields the classifiers read:   *)
(* err.code, err.status (0 = undefined), err.error (hasBody, with its      *)
(* top-level status and whether its errors[] holds reason "authError"),    *)
(* and err.message as the set of marker substrings it contains.            *)

NoError == [code |-> 0, status |-> 0, hasBody |-> FALSE, bodyStatus |-> "",
            bodyAuthReason |-> FALSE, msg |-> {}]

\* A response of the mail provider: HTTP status, marker substrings of its
\* text, and for JSON bodies the top-level status and authError reason.
Response(http, text, bodyStatus, authReason) ==
    [http |-> http, text |-> text, bodyStatus |-> bodyStatus,
     authReason |-> authReason]

OkResponse == Response(200, {}, "", FALSE)

isOk(resp) == resp.http = 200

\* worker.ts isGmailAuthError (identical copy in the metadata fetcher)
\* (payload = err.error ?? err; without a body payload.status is the numeric
\* err.status and payload.errors is undefined)
isGmailAuthError(err) ==
    LET code == IF err.code # 0 THEN err.code ELSE err.status
    IN  \/ code = 401
        \/ err.hasBody /\ err.bodyStatus = "UNAUTHENTICATED"
        \/ err.hasBody /\ err.bodyAuthReason
        \/ "Invalid Credentials" \in err.msg
        \/ "invalid_grant" \in err.msg

-----------------------------------------------------------------------------
(* retryWithBackoff around the get-message request of getEmailMetadataBatch *)

maxRetries == 5
baseDelay == 1000

\* the responses the get-message endpoint may give
MetadataResponses ==
    {OkResponse}
    \cup {Response(401, {}, s, a) : s \in {"", "UNAUTHENTICATED"}, a \in BOOLEAN}
    \cup {Response(h, {}, s, FALSE) : h \in {403, 429}, s \in {"", "RESOURCE_EXHAUSTED"}}
    \cup {Response(403, {"Quota"}, "", FALSE)}
    \cup {Response(500, {}, "", FALSE)}

\* the error the request closure throws for a non-2xx response:
\* err.code = res.status, err.error = body, message "Gmail metadata error for
\* message <id>: <status>" (holds none of the markers)
metadataError(resp) ==
    [code |-> resp.http, status |-> 0, hasBody |-> TRUE,
     bodyStatus |-> resp.bodyStatus, bodyAuthReason |-> resp.authReason,
     msg |-> {}]

isRateLimitError(err) ==
    \/ err.code = 429
    \/ err.status = 429
    \/ err.hasBody /\ err.bodyStatus = "RESOURCE_EXHAUSTED"
    \/ err.code = 403 /\ "Quota" \in err.msg

\* Math.pow(2, n)
RECURSIVE Pow2(_)
Pow2(n) == IF n = 0 THEN 1 ELSE 2 * Pow2(n - 1)

\* const delay = baseDelay * Math.pow(2, attempt)
backoffDelay(a) == baseDelay * Pow2(a)

retryDecisionOffByOne(err, a) ==
    IF isGmailAuthError(err) THEN "throw"
    ELSE IF ~isRateLimitError(err) \/ a = maxRetries THEN "throw"
    ELSE "sleep"

\* the catch block of the retry loop: rethrow or back off
retryDecision(err, a) ==
    IF isGmailAuthError(err) THEN "throw"
    ELSE IF ~isRateLimitError(err) \/ a = maxRetries - 1 THEN "throw"
    ELSE "sleep"

RetryInit ==
    /\ rPc = "call"
    /\ attempt = 0
    /\ lastErr = NoError
    /\ rHist = <<>>
    /\ rSleeps = <<>>

\* one `await fn()` of the loop and the catch block that follows it
RetryAttempt ==
    /\ rPc = "call"
    /\ \E resp \in MetadataResponses :
         /\ rHist' = Append(rHist, resp)
         /\ IF isOk(resp)
            THEN /\ rPc' = "returned"
                 /\ UNCHANGED <<lastErr, rSleeps>>
            ELSE LET err == metadataError(resp) IN
                 /\ lastErr' = err
                 /\ IF retryDecision(err, attempt) = "throw"
                    THEN /\ rPc' = "thrown"
                         /\ UNCHANGED rSleeps
                    ELSE /\ rPc' = "sleep"
                         /\ rSleeps' = Append(rSleeps, backoffDelay(attempt))
    /\ UNCHANGED <<attempt, tokenVars, sweepVars, restVars>>

\* `await sleep(delay)` is over: attempt++ and the loop test
RetryWake ==
    /\ rPc = "sleep"
    /\ attempt' = attempt + 1
    /\ rPc' = IF attempt + 1 < maxRetries THEN "call" ELSE "thrown"
    /\ UNCHANGED <<lastErr, rHist, rSleeps, tokenVars, sweepVars, restVars>>

-----------------------------------------------------------------------------
(* listEmails as seen by withTokenRefresh: the first non-2xx list response  *)
(* decides the error it throws.                                             *)

ListResponses ==
    {OkResponse}
    \cup {Response(h, t, "", FALSE) :
            h \in {401, 403, 500},
            t \in {{}, {"Invalid Credentials"}, {"UNAUTHENTICATED"}, {"invalid_grant"}}}

\* fetchMessageIds: `res.status === 401 || text.includes(...)`
isListAuthFailure(resp) ==
    \/ resp.http = 401
    \/ "Invalid Credentials" \in resp.text
    \/ "UNAUTHENTICATED" \in resp.text

\* the Error fetchMessageIds throws for a non-2xx response
fetchMessageIdsError(resp) ==
    IF isListAuthFailure(resp)
    THEN [NoError EXCEPT !.msg = {"GMAIL_AUTH_INVALID"}]
    ELSE [NoError EXCEPT !.msg = {"Gmail list failed"} \cup resp.text]

listEmailsErrorUnwrapped(resp) == fetchMessageIdsError(resp)

\* the catch block of listEmails: the sentinel is rethrown as it is, any
\* other error is wrapped as "Failed to scan inbox: <message>"
listEmailsError(resp) ==
    LET e == fetchMessageIdsError(resp)
    IN  IF e.msg = {"GMAIL_AUTH_INVALID"} THEN e
        ELSE [NoError EXCEPT !.msg = {"Failed to scan inbox"} \cup e.msg]

\* fetchMetadataForMessages rethrows an error of a batch only if it is an
\* auth error; every other failure is logged and the fetch returns
MetadataAuthResponses ==
    {r \in MetadataResponses : ~isOk(r) /\ isGmailAuthError(metadataError(r))}

\* responses that can end fn of call n, and the error fn throws for them
OpResponses(n) == IF n = 1 THEN ListResponses
                  ELSE {OkResponse} \cup MetadataAuthResponses

opError(n, resp) == IF n = 1 THEN listEmailsError(resp) ELSE metadataError(resp)

-----------------------------------------------------------------------------
(* ensureValidAccessToken / withTokenRefresh                                *)

MaxNow == 4
ExpiresIn == {1, 3}
NoRefreshed == [access_token |-> 0, expires_in |-> 0]

\* `tokenExpirySec && tokenExpirySec < nowSec && refreshToken`
needsProactiveRefresh(acct, nowSec) ==
    acct.expiry # 0 /\ acct.expiry < nowSec /\ acct.hasRefresh

catchDecisionAnyError(err, acct) ==
    IF ~acct.hasRefresh THEN "rethrow" ELSE "refresh"

\* the catch block of withTokenRefresh up to the token exchange
catchDecision(err, acct) ==
    IF ~isGmailAuthError(err) THEN "rethrow"
    ELSE IF ~acct.hasRefresh THEN "rethrow"
    ELSE "refresh"

persistedTokenOnly(row, tok, expiry) == [row EXCEPT !.access = tok]

\* the gmail_accounts update: access_token_encrypted and token_expires_at
\* are set in one statement
persisted(row, tok, expiry) == [row EXCEPT !.access = tok, !.expiry = expiry]

TokenInit ==
    /\ tPc = "ensure"
    /\ callNo = 1
    /\ now = 2
    /\ cred \in [access : {0}, expiry : {0, 1, MaxNow + 1}, hasRefresh : BOOLEAN,
                 address : {"user@gmail.com"}]
    /\ gmailAccount = cred
    /\ accessToken = 0
    /\ refreshed = NoRefreshed
    /\ newExpiry = 0
    /\ nextTok = 1
    /\ tErr = NoError
    /\ opTokens = <<>>
    /\ opErrs = <<>>
    /\ opResps = <<>>
    /\ proCount = 0
    /\ reCount = 0
    /\ lastPersist = "none"
    /\ prevTok = 0
    /\ prevExp = 0

tokenHist == <<opTokens, opErrs, opResps, proCount, reCount, lastPersist,
               prevTok, prevExp>>

\* ensureValidAccessToken up to its first await (or its return, followed by
\* the invocation of fn)
EnsureValid ==
    /\ tPc = "ensure"
    /\ accessToken' = gmailAccount.access
    /\ IF needsProactiveRefresh(gmailAccount, now)
       THEN /\ tPc' = "proExchange"
            /\ proCount' = proCount + 1
            /\ UNCHANGED opTokens
       ELSE /\ tPc' = "op1"
            /\ opTokens' = Append(opTokens, gmailAccount.access)
            /\ UNCHANGED proCount
    /\ UNCHANGED <<callNo, cred, gmailAccount, refreshed, newExpiry, now, nextTok, tErr,
                   opErrs, opResps, reCount, lastPersist, prevTok, prevExp,
                   retryVars, sweepVars, restVars>>

\* refreshAccessToken answers: a new token and its lifetime, or it throws
Exchange ==
    /\ tPc \in {"proExchange", "reExchange"}
    /\ \/ /\ \E ttl \in ExpiresIn :
               /\ refreshed' = [access_token |-> nextTok, expires_in |-> ttl]
               /\ newExpiry' = now + ttl
          /\ accessToken' = nextTok
          /\ nextTok' = nextTok + 1
          /\ tPc' = IF tPc = "proExchange" THEN "proPersist" ELSE "rePersist"
          /\ UNCHANGED tErr
       \/ /\ tPc' = "thrown"
          /\ tErr' = [NoError EXCEPT !.msg = {"Token refresh failed"}]
          /\ UNCHANGED <<refreshed, newExpiry, accessToken, nextTok>>
    /\ UNCHANGED <<callNo, cred, gmailAccount, now, tokenHist, retryVars, sweepVars, restVars>>

\* the gmail_accounts update answers (its result is not inspected), then fn
\* is invoked with the new token
Persist ==
    /\ tPc \in {"proPersist", "rePersist"}
    /\ \E ok \in BOOLEAN :
         /\ cred' = IF ok THEN persisted(cred, accessToken, newExpiry)
                    ELSE cred
         /\ lastPersist' = IF ok THEN "ok" ELSE "failed"
    /\ tPc' = IF tPc = "proPersist" THEN "op1" ELSE "op2"
    /\ opTokens' = Append(opTokens, accessToken)
    /\ UNCHANGED <<callNo, gmailAccount, accessToken, refreshed, newExpiry, now, nextTok,
                   tErr, opErrs, opResps, proCount, reCount, prevTok, prevExp,
                   retryVars, sweepVars, restVars>>

\* the first fn(accessToken) settles
FirstAttempt ==
    /\ tPc = "op1"
    /\ \E resp \in OpResponses(callNo) :
         /\ opResps' = Append(opResps, resp)
         /\ IF isOk(resp)
            THEN /\ opErrs' = Append(opErrs, NoError)
                 /\ tPc' = "returned"
                 /\ UNCHANGED <<tErr, reCount>>
            ELSE LET err == opError(callNo, resp) IN
                 /\ opErrs' = Append(opErrs, err)
                 /\ IF catchDecision(err, gmailAccount) = "rethrow"
                    THEN /\ tPc' = "thrown"
                         /\ tErr' = err
                         /\ UNCHANGED reCount
                    ELSE /\ tPc' = "reExchange"
                         /\ reCount' = reCount + 1
                         /\ UNCHANGED tErr
    /\ UNCHANGED <<callNo, cred, gmailAccount, accessToken, refreshed, newExpiry, now,
                   nextTok, opTokens, proCount, lastPersist, prevTok, prevExp,
                   retryVars, sweepVars, restVars>>

\* the retry `return await fn(accessToken)` settles
SecondAttempt ==
    /\ tPc = "op2"
    /\ \E resp \in OpResponses(callNo) :
         /\ opResps' = Append(opResps, resp)
         /\ IF isOk(resp)
            THEN /\ opErrs' = Append(opErrs, NoError)
                 /\ tPc' = "returned"
                 /\ UNCHANGED tErr
            ELSE /\ opErrs' = Append(opErrs, opError(callNo, resp))
                 /\ tPc' = "thrown"
                 /\ tErr' = opError(callNo, resp)
    /\ UNCHANGED <<callNo, cred, gmailAccount, accessToken, refreshed, newExpiry, now,
                   nextTok, opTokens, proCount, reCount, lastPersist, prevTok,
                   prevExp, retryVars, sweepVars, restVars>>

\* processSweep goes on from the listing call to the metadata call, handing
\* over the same gmailAccount object
NextCall ==
    /\ tPc = "returned"
    /\ callNo = 1
    /\ callNo' = 2
    /\ tPc' = "ensure"
    /\ prevTok' = refreshed.access_token
    /\ prevExp' = newExpiry
    /\ opTokens' = <<>>
    /\ opErrs' = <<>>
    /\ opResps' = <<>>
    /\ proCount' = 0
    /\ reCount' = 0
    /\ lastPersist' = "none"
    /\ UNCHANGED <<cred, gmailAccount, accessToken, refreshed, newExpiry, now, nextTok,
                   tErr, retryVars, sweepVars, restVars>>

\* time passes
Tick ==
    /\ now < MaxNow
    /\ tPc \notin {"returned", "thrown"} \/ (tPc = "returned" /\ callNo = 1)
    /\ now' = now + 1
    /\ UNCHANGED <<tPc, callNo, cred, gmailAccount, accessToken, refreshed, newExpiry,
                   nextTok, tErr, tokenHist, retryVars, sweepVars, restVars>>

-----------------------------------------------------------------------------
(* processNextJob / processSweep                                            *)

MaxJobs == 2
NumInv == 2
MaxNotes == 2

Jobs == 1..MaxJobs
Invs == 1..NumInv

NoErr == [stage |-> "none", props |-> FALSE]
\* a thrown value: the stage that raised it and whether it has enumerable
\* own properties (an error object of the store client, or an Error given
\* code/error fields) or none (new Error(message))
Thrown(stage, props) == [stage |-> stage, props |-> props]

\* JSON.stringify(err): only enumerable own properties are serialized, so
\* an Error that carries nothing but its message becomes "{}"
stringifyError(err) == IF err.props THEN "json" ELSE "{}"

Idle == [pc |-> "idle", job |-> 0, err |-> NoErr, out |-> "none",
         ret |-> "none"]

resultWithoutCatch(end) == IF end = "returned" THEN "true"
                           ELSE IF end = "noJob" THEN "false" ELSE "rejected"

\* what the promise of processNextJob settles with: `return false` without
\* a job, `return true` after `await processSweep(...)`, and `return false`
\* in the catch block, which takes jobErr and whatever processSweep threw
processNextJobResult(end) == IF end = "returned" THEN "true" ELSE "false"

SweepInit ==
    /\ jobs = [j \in Jobs |-> [status |-> "absent", error |-> "null",
                               returned |-> FALSE]]
    /\ inv = [i \in Invs |-> Idle]
    /\ notes = [j \in Jobs |-> [sweep_completed |-> 0, sweep_failed |-> 0]]
    /\ written = [j \in Jobs |-> {}]

\* .eq('status', 'pending').order('created_at', { ascending: true }).limit(1)
PendingJobs == {j \in Jobs : jobs[j].status = "pending"}
oldestPending == CHOOSE j \in PendingJobs : \A k \in PendingJobs : j <= k

\* the enqueuing collaborator inserts a job row in status pending
Enqueue ==
    /\ \E j \in Jobs :
         /\ jobs[j].status = "absent"
         /\ \A k \in Jobs : k < j => jobs[k].status # "absent"
         /\ jobs' = [jobs EXCEPT ![j].status = "pending"]
    /\ UNCHANGED <<inv, notes, written, retryVars, tokenVars, restVars>>

\* processNextJob settles (processSweep is over for its job, if it had
\* one); end is "noJob", "returned" (processSweep returned) or "threw"
Return(i, end) ==
    /\ inv' = [inv EXCEPT ![i] = [Idle EXCEPT !.out = end,
                                              !.ret = processNextJobResult(end)]]

MarkReturned(j) == [jobs EXCEPT ![j].returned = TRUE]

\* the notification insert of notify(); the job is the one whose sweep
\* issued it
Notified(j, type) ==
    [notes EXCEPT ![j][type] = IF @ < MaxNotes THEN @ + 1 ELSE @]

\* processNextJob is invoked (startup call, interval tick or POST
\* /trigger-worker) and its job query is answered
SelectJob(i) ==
    /\ inv[i].pc = "idle"
    /\ \/ /\ PendingJobs # {}
          /\ inv' = [inv EXCEPT ![i] = [Idle EXCEPT !.pc = "getUser",
                                                   !.job = oldestPending]]
       \/ /\ PendingJobs = {}
          /\ Return(i, "noJob")
       \/ Return(i, "threw")        \* jobErr: thrown and caught
    /\ UNCHANGED <<jobs, notes, written, retryVars, tokenVars, restVars>>

\* processSweep: getUserEmail answers; without a user the failure
\* notification is issued, otherwise the try block starts with the update
\* to processing
GetUser(i) ==
    /\ inv[i].pc = "getUser"
    /\ \E found \in BOOLEAN :
         inv' = [inv EXCEPT ![i].pc = IF found THEN "markProcessing"
                                      ELSE "notifyNoUser"]
    /\ UNCHANGED <<jobs, notes, written, retryVars, tokenVars, restVars>>

\* the notify() of the missing-user branch settles, then `return`; an insert
\* error is thrown out of processSweep and caught by processNextJob
NotifyNoUser(i) ==
    /\ inv[i].pc = "notifyNoUser"
    /\ \/ /\ notes' = Notified(inv[i].job, "sweep_failed")
          /\ Return(i, "returned")
       \/ /\ Return(i, "threw")
          /\ UNCHANGED notes
    /\ jobs' = MarkReturned(inv[i].job)
    /\ UNCHANGED <<written, retryVars, tokenVars, restVars>>

\* .update({ status: 'processing', ... }).eq('id', sweepEventId)
MarkProcessing(i) ==
    /\ inv[i].pc = "markProcessing"
    /\ jobs' = [jobs EXCEPT ![inv[i].job].status = "processing"]
    /\ inv' = [inv EXCEPT ![i].pc = "load"]
    /\ UNCHANGED <<notes, written, retryVars, tokenVars, restVars>>

\* control enters the catch block with err: the update to failed is issued
Catch(i, err) == [inv EXCEPT ![i].pc = "markFailed", ![i].err = err]

\* a stage of the try block that writes nothing to the job row settles:
\* it either succeeds or throws
Stage(i, pc, next, props) ==
    /\ inv[i].pc = pc
    /\ \/ inv' = [inv EXCEPT ![i].pc = next]
       \/ \E p \in props : inv' = Catch(i, Thrown(pc, p))

\* plan lookup (never throws), gmail_accounts lookup (`throw new
\* Error('Gmail account not found')`) and getIncrementalScanDate
Load(i) ==
    /\ Stage(i, "load", "list", {FALSE})
    /\ UNCHANGED <<jobs, notes, written, retryVars, tokenVars, restVars>>

\* withTokenRefresh(listEmails): listEmails and refreshAccessToken throw
\* new Error(message)
List(i) ==
    /\ Stage(i, "list", "fetch", {FALSE})
    /\ UNCHANGED <<jobs, notes, written, retryVars, tokenVars, restVars>>

\* withTokenRefresh(fetchMetadataForMessages): a metadata auth error
\* carries code and error fields, a failed token exchange only a message
Fetch(i) ==
    /\ Stage(i, "fetch", "summarize", BOOLEAN)
    /\ UNCHANGED <<jobs, notes, written, retryVars, tokenVars, restVars>>

\* summarizeByDomain (throws the store's error object, or a RangeError of
\* toISOString) and the scoring, filtering and sorting that follow it
Summarize(i) ==
    /\ Stage(i, "summarize", "breaches", BOOLEAN)
    /\ UNCHANGED <<jobs, notes, written, retryVars, tokenVars, restVars>>

\* getBreaches (fetch rejects when the transport fails)
Breaches(i) ==
    /\ Stage(i, "breaches", "save", {FALSE})
    /\ UNCHANGED <<jobs, notes, written, retryVars, tokenVars, restVars>>

\* saveSweepData: delete of the old links on a full scan, upsert of the
\* links (`if (error) throw error`), upsert of the breaches
Save(i) ==
    /\ inv[i].pc = "save"
    /\ \/ /\ inv' = [inv EXCEPT ![i].pc = "metrics"]
          /\ written' = [written EXCEPT ![inv[i].job] = @ \cup {"links", "breaches"}]
       \/ /\ inv' = Catch(i, Thrown("save", TRUE))
          /\ UNCHANGED written
    /\ UNCHANGED <<jobs, notes, retryVars, tokenVars, restVars>>

\* recordSweepMetrics (an insert error is only logged); then the update to
\* completed is issued
Metrics(i) ==
    /\ inv[i].pc = "metrics"
    /\ inv' = [inv EXCEPT ![i].pc = "markCompleted"]
    /\ written' = [written EXCEPT ![inv[i].job] = @ \cup {"metrics"}]
    /\ UNCHANGED <<jobs, notes, retryVars, tokenVars, restVars>>

\* .update({ status: 'completed', ... }).eq('id', sweepEventId)
MarkCompleted(i) ==
    /\ inv[i].pc = "markCompleted"
    /\ jobs' = [jobs EXCEPT ![inv[i].job].status = "completed"]
    /\ inv' = [inv EXCEPT ![i].pc = "lastSweep"]
    /\ UNCHANGED <<notes, written, retryVars, tokenVars, restVars>>

\* user_subscriptions.update({ last_sweep_at })
LastSweep(i) ==
    /\ inv[i].pc = "lastSweep"
    /\ inv' = [inv EXCEPT ![i].pc = "notifyOk"]
    /\ UNCHANGED <<jobs, notes, written, retryVars, tokenVars, restVars>>

\* notify(sweep_completed): `if (error) throw error`
NotifyOk(i) ==
    /\ inv[i].pc = "notifyOk"
    /\ \/ /\ notes' = Notified(inv[i].job, "sweep_completed")
          /\ inv' = [inv EXCEPT ![i].pc = "emailOk"]
       \/ /\ inv' = Catch(i, Thrown("notifyOk", TRUE))
          /\ UNCHANGED notes
    /\ UNCHANGED <<jobs, written, retryVars, tokenVars, restVars>>

\* sendEmail(success template): throws without API key or on a non-2xx
\* answer; otherwise processSweep returns and processNextJob returns true
EmailOk(i) ==
    /\ inv[i].pc = "emailOk"
    /\ \/ /\ Return(i, "returned")
          /\ jobs' = MarkReturned(inv[i].job)
       \/ /\ inv' = Catch(i, Thrown("emailOk", FALSE))
          /\ UNCHANGED jobs
    /\ UNCHANGED <<notes, written, retryVars, tokenVars, restVars>>

\* catch: .update({ status: 'failed', error_message: JSON.stringify(err) })
MarkFailed(i) ==
    /\ inv[i].pc = "markFailed"
    /\ jobs' = [jobs EXCEPT ![inv[i].job].status = "failed",
                            ![inv[i].job].error = stringifyError(inv[i].err)]
    /\ inv' = [inv EXCEPT ![i].pc = "notifyFail"]
    /\ UNCHANGED <<notes, written, retryVars, tokenVars, restVars>>

\* catch: notify(sweep_failed); an insert error leaves processSweep
NotifyFail(i) ==
    /\ inv[i].pc = "notifyFail"
    /\ \/ /\ notes' = Notified(inv[i].job, "sweep_failed")
          /\ inv' = [inv EXCEPT ![i].pc = "emailFail"]
          /\ UNCHANGED jobs
       \/ /\ Return(i, "threw")
          /\ jobs' = MarkReturned(inv[i].job)
          /\ UNCHANGED notes
    /\ UNCHANGED <<written, retryVars, tokenVars, restVars>>

\* catch: sendEmail(failure template), then processSweep is over
EmailFail(i) ==
    /\ inv[i].pc = "emailFail"
    /\ \/ Return(i, "returned")
       \/ Return(i, "threw")
    /\ jobs' = MarkReturned(inv[i].job)
    /\ UNCHANGED <<notes, written, retryVars, tokenVars, restVars>>

-----------------------------------------------------------------------------
(* fetchMetadataForMessages and getEmailMetadataBatch (utils/encryption.ts, *)
(* fetch-metadata-for-messages part).  The identifiers of the call are      *)
(* 1..total, all distinct.  A worker is suspended at the get-message        *)
(* request, at the backoff sleep of retryWithBackoff, or at the pacing      *)
(* sleep; everything a worker does between two of these, and the            *)
(* continuation of fetchMetadataForMessages when Promise.all settles, runs  *)
(* without interruption.  A 200 response is a well-formed message resource. *)

BATCH_SIZE == 3      \* 200 in the source, scaled down
CONCURRENCY == 2     \* 5 in the source, scaled down
MaxIds == 4          \* most identifiers handed to one call

Workers == 1..CONCURRENCY

NoFetchErr == [id |-> 0, err |-> NoError]
Done == [pc |-> "done", i |-> 0, attempt |-> 0]

\* batchIds.length for the batch at offset i
batchLen(i) == IF total - i < BATCH_SIZE THEN total - i ELSE BATCH_SIZE

\* Array.from({length: CONCURRENCY}, worker): every worker runs up to its
\* first await, taking the next index if one is left
startWorkers(i) ==
    [w \in Workers |-> IF w <= batchLen(i)
                       THEN [pc |-> "request", i |-> w - 1, attempt |-> 0]
                       ELSE Done]

\* Math.round((results.length / messageIds.length) * 100) || 0
percentage(n) == (200 * n + total) \div (2 * total)

workerCatchThrowsAll(err) == "throw"

\* the catch block of a worker: auth errors are rethrown, others recorded
workerCatch(err) == IF isGmailAuthError(err) THEN "throw" ELSE "record"

batchCatchSwallowsAll(err) == "continue"

\* the catch block around `await getEmailMetadataBatch`
batchCatch(err) == IF isGmailAuthError(err) THEN "throw" ELSE "continue"

FetchInit ==
    /\ fPc = "call"
    /\ total \in 0..MaxIds
    /\ fI = 0 /\ results = <<>> /\ fErr = NoFetchErr /\ progress = <<>>
    /\ index = 0 /\ batchResults = <<>> /\ errors = {}
    /\ wk = [w \in Workers |-> Done]
    /\ out = [id \in 1..total |-> "none"]
    /\ authOrder = <<>>

FetchIdle ==
    /\ fPc = "returned" /\ total = 0
    /\ fI = 0 /\ results = <<>> /\ fErr = NoFetchErr /\ progress = <<>>
    /\ index = 0 /\ batchResults = <<>> /\ errors = {}
    /\ wk = [w \in Workers |-> Done]
    /\ out = <<>>
    /\ authOrder = <<>>

\* getEmailMetadataBatch(accessToken, batchIds) up to `await Promise.all`
startBatch(i) ==
    /\ fI' = i
    /\ index' = IF batchLen(i) < CONCURRENCY THEN batchLen(i) ELSE CONCURRENCY
    /\ batchResults' = <<>>
    /\ errors' = {}
    /\ wk' = startWorkers(i)

\* fetchMetadataForMessages up to its first await
FetchCall ==
    /\ fPc = "call"
    /\ IF total = 0
       THEN /\ fPc' = "returned"
            /\ UNCHANGED <<fI, index, batchResults, errors, wk>>
       ELSE /\ fPc' = "wait"
            /\ startBatch(0)
    /\ UNCHANGED <<total, results, fErr, progress, out, authOrder, fetchRest>>

\* the rest of the loop body after the batch settled without a rethrow:
\* progress report, then the inter-batch sleep or the return
afterBatch(r) ==
    /\ results' = r
    /\ progress' = Append(progress, [messagesProcessed |-> Len(r),
                                      totalMessages |-> total,
                                      percentage |-> percentage(Len(r))])
    /\ fPc' = IF fI + BATCH_SIZE < total THEN "delay" ELSE "returned"
    /\ UNCHANGED fErr

\* a worker's step is over; if it was the last one running and no worker
\* threw, Promise.all fulfils and fetchMetadataForMessages goes on
settle(nwk, br) ==
    /\ wk' = nwk
    /\ batchResults' = br
    /\ IF fPc = "wait" /\ \A v \in Workers : nwk[v].pc = "done"
       THEN afterBatch(results \o br)
       ELSE UNCHANGED <<fPc, results, fErr, progress>>

loopKeepsIndex(w) ==
    /\ index' = index
    /\ settle([wk EXCEPT ![w] =
                  IF index < batchLen(fI)
                  THEN [pc |-> "request", i |-> index, attempt |-> 0]
                  ELSE Done],
              batchResults)

\* `while (index < messageIds.length) { const i = index++; ...` up to the
\* request being issued
loop(w) ==
    /\ index' = IF index < batchLen(fI) THEN index + 1 ELSE index
    /\ settle([wk EXCEPT ![w] =
                  IF index < batchLen(fI)
                  THEN [pc |-> "request", i |-> index, attempt |-> 0]
                  ELSE Done],
              batchResults)

\* a worker rejects with err: Promise.all rejects if it is still pending,
\* and the catch block of fetchMetadataForMessages runs
workerThrows(w, id, err) ==
    /\ wk' = [wk EXCEPT ![w].pc = "threw"]
    /\ IF fPc # "wait"
       THEN UNCHANGED <<fPc, results, fErr, progress>>
       ELSE IF batchCatch(err) = "throw"
       THEN /\ fPc' = "thrown"
            /\ fErr' = [id |-> id, err |-> err]
            /\ UNCHANGED <<results, progress>>
       ELSE afterBatch(results)
    /\ UNCHANGED <<index, batchResults, errors>>

\* retryWithBackoff gave up on the request of `id` with err: the catch
\* block of the worker
requestFailed(w, id, err) ==
    IF workerCatch(err) = "throw"
    THEN workerThrows(w, id, err)
    ELSE /\ errors' = errors \cup {id}
         /\ loop(w)

\* the responses a worker's request may get, one of each kind the fetch
\* tells apart: success, auth error, rate limit by status and by body,
\* other failure
FetchResponses ==
    {OkResponse, Response(401, {}, "", FALSE), Response(429, {}, "", FALSE),
     Response(403, {}, "RESOURCE_EXHAUSTED", FALSE),
     Response(500, {}, "", FALSE)}

\* the response to a worker's get-message request arrives
Respond(w) ==
    /\ wk[w].pc = "request"
    /\ \E resp \in FetchResponses :
         LET id == fI + wk[w].i + 1
             err == metadataError(resp)
         IN  /\ out' = [out EXCEPT ![id] =
                          IF isOk(resp) THEN "ok"
                          ELSE IF isGmailAuthError(err) THEN "auth"
                          ELSE IF retryDecision(err, wk[w].attempt) = "throw"
                               THEN IF isRateLimitError(err)
                                    THEN "exhausted" ELSE "failed"
                          ELSE @]
             /\ authOrder' = IF ~isOk(resp) /\ isGmailAuthError(err)
                             THEN Append(authOrder, id) ELSE authOrder
             /\ IF isOk(resp)
                THEN \* results.push(...); await sleep(DELAY_BETWEEN_REQUESTS)
                     /\ settle([wk EXCEPT ![w].pc = "pause"],
                               Append(batchResults, id))
                     /\ UNCHANGED <<index, errors>>
                ELSE IF retryDecision(err, wk[w].attempt) = "sleep"
                THEN /\ wk' = [wk EXCEPT ![w].pc = "backoff"]
                     /\ UNCHANGED <<fPc, results, fErr, progress, index,
                                    batchResults, errors>>
                ELSE requestFailed(w, id, err)
    /\ UNCHANGED <<total, fI, fetchRest>>

\* the backoff sleep of retryWithBackoff is over: attempt++ and the request
\* is issued again
BackoffWake(w) ==
    /\ wk[w].pc = "backoff"
    /\ wk' = [wk EXCEPT ![w].pc = "request", ![w].attempt = @ + 1]
    /\ UNCHANGED <<fPc, total, fI, results, fErr, progress, index,
                   batchResults, errors, out, authOrder, fetchRest>>

\* the pacing sleep after a stored result is over: back to the loop test
PauseWake(w) ==
    /\ wk[w].pc = "pause"
    /\ loop(w)
    /\ UNCHANGED <<total, fI, errors, out, authOrder, fetchRest>>

\* `await sleep(BATCH_DELAY)` is over: i += BATCH_SIZE and the next batch
BatchDelayWake ==
    /\ fPc = "delay"
    /\ fPc' = "wait"
    /\ startBatch(fI + BATCH_SIZE)
    /\ UNCHANGED <<total, results, fErr, progress, out, authOrder, fetchRest>>

-----------------------------------------------------------------------------
(* The progress callback processSweep hands to fetchMetadataForMessages,    *)
(* `async (progress) => { await ...update({ progress: progress.percentage   *)
(* }).eq('id', sweepEventId) }`.  fetchMetadataForMessages calls it without *)
(* awaiting the promise, so every report is an update request on its own    *)
(* that the store applies at some later moment.                             *)

\* catch block of withTokenRefresh around the metadata fetch: the account
\* has a refresh token and the exchange succeeds, so fn is invoked again
\* with the same identifiers; `results` starts empty again.  Workers the
\* rejected batch left running touch nothing the new call reads.
Rerun ==
    /\ fPc = "thrown" /\ isGmailAuthError(fErr.err)
    /\ ~reran /\ jStatus = "processing"
    /\ reran' = TRUE
    /\ fPc' = "call"
    /\ fI' = 0 /\ results' = <<>> /\ fErr' = NoFetchErr
    /\ index' = 0 /\ batchResults' = <<>> /\ errors' = {}
    /\ wk' = [w \in Workers |-> Done]
    /\ out' = [id \in 1..total |-> "none"]
    /\ authOrder' = <<>>
    /\ UNCHANGED <<total, progress, landed, jobProgress, jStatus, rerunRest>>

\* the store applies the update of one report; the requests are independent
\* of each other and of what processSweep does meanwhile
Land ==
    /\ \E k \in (1..Len(progress)) \ landed :
         /\ landed' = landed \cup {k}
         /\ jobProgress' = progress[k].percentage
    /\ UNCHANGED <<reran, jStatus, fetchVars, rerunRest>>

\* the terminal update of the sweep: completed after the stages that follow
\* a returned fetch, failed from the catch block of processSweep (a stage
\* after the fetch threw, the fetch threw again or with a non-refreshable
\* error, or the token exchange failed)
Finish ==
    /\ jStatus = "processing"
    /\ fPc \in {"returned", "thrown"}
    /\ \/ fPc = "returned" /\ jStatus' = "completed"
       \/ jStatus' = "failed"
    /\ UNCHANGED <<reran, landed, jobProgress, fetchVars, rerunRest>>

-----------------------------------------------------------------------------
(* listEmails (list-emails.ts): the keyword query, the sender fallback      *)
(* query, and the pages the provider returns for them.  A page holds at     *)
(* most the requested maxResults identifiers, each once; the same           *)
(* identifier may come back on another page or for the other query.         *)

PAGE_SIZE == 2            \* 500 in the source, scaled down
MAX_PAGES == 2            \* 8 (free) or 20 (pro) in the source, scaled down
FALLBACK_THRESHOLD == 3   \* 50 in the source, scaled down
MaxMsgId == 2             \* message identifiers 1..MaxMsgId

MAX_MESSAGES == MAX_PAGES * PAGE_SIZE

\* the pages (json.messages) the provider may return for maxResults = n
Pages(n) ==
    UNION {{p \in [1..k -> 1..MaxMsgId] : \A a, b \in 1..k : p[a] = p[b] => a = b}
           : k \in 0..n}

\* deduplicateMessages: keep the first entry of every identifier
RECURSIVE deduplicateMessages(_)
deduplicateMessages(msgs) ==
    IF msgs = <<>> THEN <<>>
    ELSE LET front == deduplicateMessages(SubSeq(msgs, 1, Len(msgs) - 1))
             last == msgs[Len(msgs)]
         IN  IF \E k \in 1..Len(front) : front[k] = last
             THEN front ELSE Append(front, last)

\* messages.slice(0, MAX_MESSAGES)
sliceMax(msgs) ==
    SubSeq(msgs, 1, IF Len(msgs) < MAX_MESSAGES THEN Len(msgs) ELSE MAX_MESSAGES)

NoPage == [size |-> 0, cursor |-> FALSE]

loopIgnoresPages(msgs, pages) == Len(msgs) < MAX_MESSAGES

\* while (messages.length < MAX_MESSAGES && pageCount < MAX_PAGES)
loopGoesOn(msgs, pages) == Len(msgs) < MAX_MESSAGES /\ pages < MAX_PAGES

ListInit ==
    /\ lPc = "keyword"
    /\ messages = <<>> /\ pageCount = 0 /\ keywordMessages = <<>>
    /\ lErr = NoError /\ listed = <<>>
    /\ lastPage = NoPage /\ lastResp = OkResponse /\ queries = <<>>

ListIdle ==
    /\ lPc = "returned"
    /\ messages = <<>> /\ pageCount = 0 /\ keywordMessages = <<>>
    /\ lErr = NoError /\ listed = <<>>
    /\ lastPage = NoPage /\ lastResp = OkResponse /\ queries = <<>>

\* fetchMessageIds returned r: the main block of listEmails goes on
fetchMessageIdsReturns(r) ==
    IF lPc = "keyword"
    THEN IF Len(r) < FALLBACK_THRESHOLD
         THEN /\ lPc' = "sender"
              /\ keywordMessages' = r
              /\ UNCHANGED listed
         ELSE /\ lPc' = "returned"
              /\ listed' = r
              /\ UNCHANGED keywordMessages
    ELSE /\ lPc' = "returned"
         /\ listed' = deduplicateMessages(keywordMessages \o r)
         /\ UNCHANGED keywordMessages

\* the response to one page request of fetchMessageIds arrives
ListPage ==
    /\ lPc \in {"keyword", "sender"}
    /\ \E resp \in ListResponses :
         /\ lastResp' = resp
         /\ IF ~isOk(resp)
            THEN /\ lPc' = "thrown"
                 /\ lErr' = listEmailsError(resp)
                 /\ UNCHANGED <<messages, pageCount, keywordMessages, listed,
                                lastPage, queries>>
            ELSE \E nextPageToken \in BOOLEAN :
                 \E batch \in Pages(IF MAX_MESSAGES - Len(messages) < PAGE_SIZE
                                    THEN MAX_MESSAGES - Len(messages)
                                    ELSE PAGE_SIZE) :
                   LET msgs == messages \o batch IN
                   /\ UNCHANGED lErr
                   /\ lastPage' = [size |-> Len(batch), cursor |-> nextPageToken]
                   /\ IF /\ batch # <<>> /\ nextPageToken
                         /\ loopGoesOn(msgs, pageCount + 1)
                      THEN /\ messages' = msgs
                           /\ pageCount' = pageCount + 1
                           /\ UNCHANGED <<lPc, keywordMessages, listed, queries>>
                      ELSE /\ messages' = <<>>
                           /\ pageCount' = 0
                           /\ queries' = Append(queries,
                                                [requests |-> pageCount + 1,
                                                 result |-> sliceMax(msgs)])
                           /\ fetchMessageIdsReturns(sliceMax(msgs))
    /\ UNCHANGED listRest

-----------------------------------------------------------------------------
(* extractDomain and toBaseDomain (utils/encryption.ts, domains part).  A   *)
(* host name is the sequence of its labels, the strings between the dots    *)
(* ("a..b" has an empty label); NoDomain stands for null.                   *)

MaxLabels == 4       \* most labels of a sender host

Labels == {"", "Mail", "mail", "shop", "co", "uk", "com", "facebookmail",
           "github"}

NoDomain == <<>>

IGNORED_PREFIXES ==
    {"www", "noreply", "no-reply", "info", "support", "notifications",
     "accounts", "team", "hello", "mail", "updates", "announce", "auth",
     "auths", "app"}

MULTIPART_SUFFIXES ==
    {<<"co", "uk">>, <<"com", "au">>, <<"co", "jp">>, <<"com", "br">>,
     <<"com", "gh">>, <<"com", "ng">>, <<"co", "za">>}

noExactAlias(h) == NoDomain

\* ALIAS_EXACT[host], NoDomain where the host is no key
ALIAS_EXACT(h) ==
    CASE h = <<"facebookmail", "com">> -> <<"facebook", "com">>
      [] h = <<"amazonses", "com">> -> <<"amazon", "com">>
      [] h = <<"reply", "github", "com">> -> <<"github", "com">>
      [] h = <<"githubmail", "com">> -> <<"github", "com">>
      [] h = <<"mail", "twitter", "com">> -> <<"twitter", "com">>
      [] h = <<"e", "uber", "com">> -> <<"uber", "com">>
      [] h = <<"mail", "netflix", "com">> -> <<"netflix", "com">>
      [] OTHER -> NoDomain

\* the keys of ALIAS_SUFFIX; each maps to itself
ALIAS_SUFFIX ==
    {<<"github", "com">>, <<"twitter", "com">>, <<"uber", "com">>,
     <<"netflix", "com">>}

\* String.prototype.toLowerCase on the labels and words used
toLowerCase(l) ==
    CASE l = "Mail" -> "mail"
      [] l = "Welcome" -> "welcome"
      [] l = "Account" -> "account"
      [] l = "Password" -> "password"
      [] l = "Your" -> "your"
      [] l = "Spotify" -> "spotify"
      [] l = "Spotify!" -> "spotify!"
      [] OTHER -> l

\* the last n entries of a sequence
lastLabels(s, n) == SubSeq(s, Len(s) - n + 1, Len(s))

\* host.replace(/\.+$/, ""): the empty labels at the end go, the first
\* label stays
RECURSIVE stripTrailingDots(_)
stripTrailingDots(h) ==
    IF Len(h) > 1 /\ h[Len(h)] = ""
    THEN stripTrailingDots(SubSeq(h, 1, Len(h) - 1))
    ELSE h

\* while (parts.length > 2 && IGNORED_PREFIXES.includes(parts[0]))
RECURSIVE dropPrefixes(_)
dropPrefixes(parts) ==
    IF Len(parts) > 2 /\ parts[1] \in IGNORED_PREFIXES
    THEN dropPrefixes(Tail(parts))
    ELSE parts

isLabel(l) == l # ""

toBaseDomain(h) ==
    LET parts == SelectSeq([k \in 1..Len(h) |-> toLowerCase(h[k])], isLabel)
        kept == dropPrefixes(parts)
    IN  IF Len(parts) <= 1 THEN h
        ELSE IF Len(kept) <= 2 THEN kept
        ELSE IF lastLabels(kept, 2) \in MULTIPART_SUFFIXES
             THEN lastLabels(kept, 3)
        ELSE lastLabels(kept, 2)

\* extractDomain of an address "<local>@<h>"
extractDomain(h) ==
    LET lowered == stripTrailingDots([k \in 1..Len(h) |-> toLowerCase(h[k])])
        base == toBaseDomain(lowered)
        aliases == {s \in ALIAS_SUFFIX :
                      \/ base = s
                      \/ Len(base) > Len(s) /\ lastLabels(base, Len(s)) = s}
    IN  IF h = NoDomain \/ lowered = <<"">> THEN NoDomain
        ELSE IF ALIAS_EXACT(lowered) # NoDomain THEN ALIAS_EXACT(lowered)
        ELSE IF aliases # {} THEN CHOOSE s \in aliases : TRUE
        ELSE base

\* the hosts of the addresses in the examples of extractDomain's comment
ExampleHosts ==
    {<<"facebookmail", "com">>, <<"announce", "airtimetools", "com">>,
     <<"mail", "netflix", "com">>}

Hosts == UNION {[1..k -> Labels] : k \in 1..MaxLabels} \cup ExampleHosts

CanonInit ==
    /\ cPc = "address"
    /\ host \in Hosts
    /\ domain = NoDomain /\ again = NoDomain /\ same = NoDomain

CanonIdle ==
    /\ cPc = "done" /\ host = NoDomain
    /\ domain = NoDomain /\ again = NoDomain /\ same = NoDomain

\* the domain of an address at `host`
Canonicalize ==
    /\ cPc = "address"
    /\ domain' = extractDomain(host)
    /\ cPc' = "domain"
    /\ UNCHANGED <<host, again, same, canonRest>>

\* a second call with the same address
CanonicalizeSame ==
    /\ cPc = "domain"
    /\ same' = extractDomain(host)
    /\ cPc' = "called twice"
    /\ UNCHANGED <<host, domain, again, canonRest>>

\* the domain of an address at that domain
Recanonicalize ==
    /\ cPc \in {"domain", "called twice"}
    /\ again' = extractDomain(domain)
    /\ cPc' = "done"
    /\ UNCHANGED <<host, domain, same, canonRest>>

-----------------------------------------------------------------------------
(* calculateConfidenceScore and isLikelySpam (helpers.ts) on a domain       *)
(* summary.  A subject is the sequence of its words and a domain the        *)
(* sequence of its labels; the words and labels used here are such that a   *)
(* pattern occurs in the joined text exactly where its words occur in a     *)
(* row.  summarizeByDomain passes no `from`, so the sender test sees the    *)
(* domain only.                                                             *)

MaxSubjects == 3     \* most subjects collected for one summary

\* subjects.filter(Boolean).join(" ").toLowerCase()
RECURSIVE allSubjects(_)
allSubjects(subjects) ==
    IF subjects = <<>> THEN <<>>
    ELSE [k \in 1..Len(Head(subjects)) |-> toLowerCase(Head(subjects)[k])]
         \o allSubjects(Tail(subjects))

\* /p1|p2|.../.test(text)
test(patterns, text) ==
    \E p \in patterns : \E k \in 1..Len(text) :
        k + Len(p) - 1 <= Len(text) /\ SubSeq(text, k, k + Len(p) - 1) = p

\* weight and patterns of every subject signal, in source order
SubjectSignals ==
    << [w |-> 10, p |-> {<<"account", "created">>, <<"welcome", "to">>,
                         <<"registration", "successful">>,
                         <<"you're", "all", "set">>}],
       [w |-> 9, p |-> {<<"verify", "your", "email">>,
                        <<"confirm", "your", "email">>,
                        <<"verify", "your", "account">>}],
       [w |-> 8, p |-> {<<"password", "reset">>, <<"security", "alert">>,
                        <<"two-factor">>, <<"2fa">>,
                        <<"verification", "code">>}],
       [w |-> 7, p |-> {<<"receipt">>, <<"order", "confirmation">>,
                        <<"invoice">>, <<"payment", "received">>,
                        <<"purchase">>}],
       [w |-> 6, p |-> {<<"subscription">>, <<"trial", "started">>,
                        <<"billing">>, <<"renewed">>}],
       [w |-> 5, p |-> {<<"account", "closed">>, <<"account", "deletion">>,
                        <<"reactivate">>}] >>

RECURSIVE subjectScore(_, _)
subjectScore(n, text) ==
    IF n = 0 THEN 0
    ELSE subjectScore(n - 1, text)
         + (IF test(SubjectSignals[n].p, text) THEN SubjectSignals[n].w ELSE 0)

volumeScoreNoTop(emailCount) ==
    IF emailCount >= 10 THEN 4
    ELSE IF emailCount >= 5 THEN 2
    ELSE IF emailCount >= 2 THEN 1
    ELSE 0

\* the email volume bonus
volumeScore(emailCount) ==
    IF emailCount >= 20 THEN 6
    ELSE IF emailCount >= 10 THEN 4
    ELSE IF emailCount >= 5 THEN 2
    ELSE IF emailCount >= 2 THEN 1
    ELSE 0

calculateConfidenceScore(s) ==
    subjectScore(Len(SubjectSignals), allSubjects(s.subjects))
    + (IF test({<<"noreply">>, <<"no-reply">>, <<"notifications">>,
                 <<"accounts">>}, s.domain) THEN 4 ELSE 0)
    + (IF ~test({<<m, "com">> : m \in {"gmail", "yahoo", "hotmail", "outlook",
                                       "aol", "icloud"}}, s.domain)
       THEN 3 ELSE 0)
    + volumeScore(s.emailCount)

isLikelySpam(s) ==
    \/ test({<<"unsubscribe">>, <<"newsletter">>, <<"daily", "digest">>,
             <<"weekly", "summary">>, <<"promotional">>,
             <<"limited", "time", "offer">>, <<"act", "now">>,
             <<"click", "here">>}, allSubjects(s.subjects))
    \/ test({<<"mailchimp">>, <<"sendgrid">>, <<"constantcontact">>}, s.domain)

\* the subjects and domains of the summaries considered
SubjectPool == {<<"Welcome">>, <<"to", "shop">>, <<"daily">>, <<"digest">>,
                <<"your", "receipt">>}
DomainPool == {<<"shop", "com">>, <<"bank", "com">>, <<"gmail", "com">>,
               <<"sendgrid", "net">>}

\* the domains scored: a company (bank.com scores as shop.com does), a
\* personal mail provider, a mail infrastructure and an automated sender
ScoreDomains == (DomainPool \ {<<"bank", "com">>}) \cup {<<"noreply", "com">>}

Summaries ==
    {[domain |-> d, subjects |-> ss, emailCount |-> n] :
        d \in ScoreDomains,
        ss \in UNION {[1..k -> SubjectPool] : k \in 0..MaxSubjects},
        n \in {1, 2, 5, 10, 20}}

\* the same summary with its subjects in another order
Reorderings(s) ==
    {[s EXCEPT !.subjects = [k \in 1..Len(s.subjects) |-> s.subjects[f[k]]]] :
        f \in {g \in [1..Len(s.subjects) -> 1..Len(s.subjects)] :
                 \A a, b \in 1..Len(s.subjects) : g[a] = g[b] => a = b}}

NoVerdict == [confidence |-> -1, spam |-> FALSE]

ScoreInit ==
    /\ sPc = "summary"
    /\ summary \in Summaries
    /\ reordered \in Reorderings(summary)
    /\ verdict = NoVerdict /\ verdictR = NoVerdict

ScoreIdle ==
    /\ sPc = "done"
    /\ summary = [domain |-> <<>>, subjects |-> <<>>, emailCount |-> 0]
    /\ reordered = summary
    /\ verdict = NoVerdict /\ verdictR = NoVerdict

\* the enrichment and the spam test of processSweep on `summary`
Score ==
    /\ sPc = "summary"
    /\ verdict' = [confidence |-> calculateConfidenceScore(summary),
                   spam |-> isLikelySpam(summary)]
    /\ sPc' = "reordered"
    /\ UNCHANGED <<summary, reordered, verdictR, scoreRest>>

\* the same on `reordered`
ScoreReordered ==
    /\ sPc = "reordered"
    /\ verdictR' = [confidence |-> calculateConfidenceScore(reordered),
                    spam |-> isLikelySpam(reordered)]
    /\ sPc' = "done"
    /\ UNCHANGED <<summary, reordered, verdict, scoreRest>>

-----------------------------------------------------------------------------
(* The data path of one processSweep (worker.ts): scan window, aggregation  *)
(* result, spam filter, ranking, breach lookup, plan limit, saveSweepData,  *)
(* metrics and the completed update.  Instants are in hours.  Store calls   *)
(* whose result the code ignores are taken as applied; the links upsert     *)
(* and the metrics insert may return an error.  A user service link is      *)
(* keyed by its service, and a service by its canonical domain.             *)

maxHoursOld == 24
MaxPrior == 2        \* most earlier sweep rows of the user
MaxFound == 3        \* most domain summaries of one sweep
FreeLimit == 2       \* 50 in the source (slice(0, 50)), scaled down

NoDate == -1         \* null

\* earlier sweep_events rows of the user
SweepRows ==
    {[status |-> "completed", started_at |-> s, completed_at |-> s + d] :
        s \in {22, 23, 24, 46}, d \in {1, 2}}
    \cup {[status |-> st, started_at |-> s, completed_at |-> NoDate] :
            st \in {"processing", "failed"}, s \in {24, 46}}
    \cup {[status |-> "pending", started_at |-> NoDate, completed_at |-> NoDate]}

isStaleAtLimit(hoursSinceScan) == hoursSinceScan >= maxHoursOld

\* if (hoursSinceScan > maxHoursOld) return null
isStale(hoursSinceScan) == hoursSinceScan > maxHoursOld

\* cache.ts getIncrementalScanDate: the completed row that started last
getIncrementalScanDate(rows, nowHours) ==
    LET completed == {r \in rows : r.status = "completed"}
        sweep == CHOOSE r \in completed :
                     \A q \in completed : q.started_at <= r.started_at
    IN  IF completed = {} THEN NoDate
        ELSE IF sweep.started_at = NoDate THEN NoDate
        ELSE IF isStale(nowHours - sweep.started_at) THEN NoDate
        ELSE sweep.started_at

\* list-emails.ts: dateFilter
dateFilterOf(scanDate, plan) ==
    IF scanDate # NoDate
    THEN [op |-> "after", value |-> scanDate]
    ELSE [op |-> "newer_than", value |-> IF plan = "pro" THEN 15 ELSE 10]

\* what summarizeByDomain may return: one aggregate per domain, in the
\* order the domains first appear
Aggregates(d) ==
    {[domain |-> d, serviceId |-> d, subjects |-> ss, emailCount |-> 1,
      firstSeenAt |-> 47, lastSeenAt |-> 47] :
        ss \in {<<<<"your", "receipt">>>>, <<<<"Welcome">>, <<"to", "shop">>>>,
                <<<<"daily", "digest">>>>}}

FoundLists ==
    UNION {{f \in [1..k -> UNION {Aggregates(d) : d \in DomainPool}] :
              \A a, b \in 1..k : f[a].domain = f[b].domain => a = b}
           : k \in 0..MaxFound}

\* enrichedSummaries: the summary with its confidence
enriched(found) ==
    [k \in 1..Len(found) |->
        [domain |-> found[k].domain, serviceId |-> found[k].serviceId,
         subjects |-> found[k].subjects, emailCount |-> found[k].emailCount,
         firstSeenAt |-> found[k].firstSeenAt,
         lastSeenAt |-> found[k].lastSeenAt,
         confidence |-> calculateConfidenceScore(found[k])]]

isKept(s) == ~isLikelySpam(s)

keepAll(list) == list

\* enrichedSummaries.filter((summary) => !isLikelySpam(summary))
withoutSpam(list) == SelectSeq(list, isKept)

RECURSIVE sortUnstable(_)
sortUnstable(list) ==
    IF list = <<>> THEN <<>>
    ELSE LET front == sortUnstable(SubSeq(list, 1, Len(list) - 1))
             x == list[Len(list)]
             n == Cardinality({k \in 1..Len(front) :
                                 front[k].confidence > x.confidence})
         IN  SubSeq(front, 1, n) \o <<x>> \o SubSeq(front, n + 1, Len(front))

\* Array.prototype.sort with (a, b) => b.confidence - a.confidence: stable,
\* highest confidence first
RECURSIVE sortByConfidence(_)
sortByConfidence(list) ==
    IF list = <<>> THEN <<>>
    ELSE LET front == sortByConfidence(SubSeq(list, 1, Len(list) - 1))
             x == list[Len(list)]
             n == Cardinality({k \in 1..Len(front) :
                                 front[k].confidence >= x.confidence})
         IN  SubSeq(front, 1, n) \o <<x>> \o SubSeq(front, n + 1, Len(front))

limitIgnoresPlan(list, plan) ==
    SubSeq(list, 1, IF Len(list) < FreeLimit THEN Len(list) ELSE FreeLimit)

\* accountsToSave: isFreePlan ? filteredSummaries.slice(0, 50) : all
planLimit(list, plan) ==
    IF plan # "pro"
    THEN SubSeq(list, 1, IF Len(list) < FreeLimit THEN Len(list) ELSE FreeLimit)
    ELSE list

\* what the breach lookup may come to: a 200 response with a list of n
\* breaches, 404, another non-2xx response, a rejected fetch, or a body
\* that is no JSON
BreachOutcomes ==
    {[kind |-> "ok", n |-> n] : n \in {0, 1}}
    \cup {[kind |-> k, n |-> 0] :
            k \in {"notFound", "httpError", "transport", "badJson"}}

Rejects == -2        \* the promise rejects

\* getBreaches: the length of the list returned, or Rejects
getBreaches(o) ==
    CASE o.kind = "transport" -> Rejects
      [] o.kind = "notFound" -> 0
      [] o.kind = "httpError" -> 0
      [] o.kind = "badJson" -> Rejects
      [] OTHER -> o.n

NoLink == [email_count |-> 0, first_seen_at |-> NoDate,
           last_seen_at |-> NoDate, confidence_score |-> 0]

\* the user_services row saveSweepData builds for a summary
linkOf(s) == [email_count |-> s.emailCount, first_seen_at |-> s.firstSeenAt,
              last_seen_at |-> s.lastSeenAt, confidence_score |-> s.confidence]

\* user_services after upsert(userServices): a row with the same key is
\* replaced, the others stay
upsert(table, list) ==
    [d \in DOMAIN table |->
        IF \E k \in 1..Len(list) : list[k].serviceId = d
        THEN linkOf(list[CHOOSE k \in 1..Len(list) : list[k].serviceId = d])
        ELSE table[d]]

NoJob == [status |-> "processing", services_found |-> NoDate,
          breaches_found |-> NoDate]
NoMetrics == [accounts_found |-> NoDate, breaches_found |-> NoDate,
              is_incremental |-> FALSE]

\* the locals of processSweep before anything was computed
DataLocals ==
    /\ lastScanDate = NoDate /\ isIncremental = FALSE
    /\ dateFilter = [op |-> "none", value |-> 0]
    /\ domainSummaries = <<>> /\ filteredSummaries = <<>>
    /\ lookup = "none" /\ breaches = NoDate
    /\ totalAccountsFound = NoDate /\ accountsToSave = <<>>
    /\ metricsRow = NoMetrics /\ job = NoJob

\* links the user may have from earlier sweeps: none, or one to shop.com
\* and one to bank.com
LinkTables ==
    {[d \in DomainPool |-> IF d \in had
                           THEN [email_count |-> 9, first_seen_at |-> 3,
                                 last_seen_at |-> 23, confidence_score |-> 10]
                           ELSE NoLink] :
        had \in {{}, {<<"shop", "com">>, <<"bank", "com">>}}}

\* processSweep right before getIncrementalScanDate, any earlier rows
ScanInit ==
    /\ dPc = "scanDate"
    /\ clock = 48
    /\ userSweeps \in {rows \in SUBSET SweepRows : Cardinality(rows) <= MaxPrior}
    /\ currentPlan \in {"free", "pro"}
    /\ userServices \in LinkTables /\ priorServices = userServices
    /\ DataLocals

\* the same, with no earlier sweep or one completed an hour ago
DataInit ==
    /\ dPc = "scanDate"
    /\ clock = 48
    /\ userSweeps \in {{}, {[status |-> "completed", started_at |-> 46,
                             completed_at |-> 47]}}
    /\ currentPlan \in {"free", "pro"}
    /\ userServices \in LinkTables /\ priorServices = userServices
    /\ DataLocals

DataIdle ==
    /\ dPc = "idle"
    /\ clock = 0 /\ userSweeps = {} /\ currentPlan = "free"
    /\ userServices = [d \in DomainPool |-> NoLink]
    /\ priorServices = userServices
    /\ DataLocals

\* the catch block of processSweep: the job goes to failed
sweepFails ==
    /\ dPc' = "failed"
    /\ job' = [job EXCEPT !.status = "failed"]

\* const lastScanDate = await getIncrementalScanDate(...); isIncremental
GetScanDate ==
    /\ dPc = "scanDate"
    /\ lastScanDate' = getIncrementalScanDate(userSweeps, clock)
    /\ isIncremental' = (getIncrementalScanDate(userSweeps, clock) # NoDate)
    /\ dPc' = "list"
    /\ UNCHANGED <<clock, userSweeps, currentPlan, dateFilter, domainSummaries,
                   filteredSummaries, lookup, breaches, totalAccountsFound,
                   accountsToSave, userServices, priorServices, metricsRow,
                   job, dataRest>>

\* listEmails(accessToken, currentPlan, lastScanDate) builds its queries
ListQuery ==
    /\ dPc = "list"
    /\ dateFilter' = dateFilterOf(lastScanDate, currentPlan)
    /\ dPc' = "summarize"
    /\ UNCHANGED <<clock, userSweeps, currentPlan, lastScanDate, isIncremental,
                   domainSummaries, filteredSummaries, lookup, breaches,
                   totalAccountsFound, accountsToSave, userServices,
                   priorServices, metricsRow, job, dataRest>>

\* listing, metadata and summarizeByDomain are over (or one of them threw);
\* enrich, filter and sort follow without an await
Summarized ==
    /\ dPc = "summarize"
    /\ \/ /\ sweepFails
          /\ UNCHANGED <<domainSummaries, filteredSummaries>>
       \/ \E found \in FoundLists :
            /\ domainSummaries' = found
            /\ filteredSummaries' = sortByConfidence(withoutSpam(enriched(found)))
            /\ dPc' = "breaches"
            /\ UNCHANGED job
    /\ UNCHANGED <<clock, userSweeps, currentPlan, lastScanDate, isIncremental,
                   dateFilter, lookup, breaches, totalAccountsFound,
                   accountsToSave, userServices, priorServices, metricsRow,
                   dataRest>>

\* `await getBreaches(...)` settles; the plan limit and the start of
\* saveSweepData follow without an await
Breached ==
    /\ dPc = "breaches"
    /\ \E o \in BreachOutcomes :
         /\ lookup' = o.kind
         /\ IF getBreaches(o) = Rejects
            THEN /\ sweepFails
                 /\ UNCHANGED <<breaches, totalAccountsFound, accountsToSave>>
            ELSE /\ breaches' = getBreaches(o)
                 /\ totalAccountsFound' = Len(filteredSummaries)
                 /\ accountsToSave' = planLimit(filteredSummaries, currentPlan)
                 /\ dPc' = IF ~isIncremental THEN "delete"
                           ELSE IF planLimit(filteredSummaries, currentPlan) # <<>>
                                THEN "upsert" ELSE "metrics"
                 /\ UNCHANGED job
    /\ UNCHANGED <<clock, userSweeps, currentPlan, lastScanDate, isIncremental,
                   dateFilter, domainSummaries, filteredSummaries, userServices,
                   priorServices, metricsRow, dataRest>>

\* saveSweepData: the delete of a full sweep
SaveDelete ==
    /\ dPc = "delete"
    /\ userServices' = [d \in DomainPool |-> NoLink]
    /\ dPc' = IF accountsToSave # <<>> THEN "upsert" ELSE "metrics"
    /\ UNCHANGED <<clock, userSweeps, currentPlan, lastScanDate, isIncremental,
                   dateFilter, domainSummaries, filteredSummaries, lookup,
                   breaches, totalAccountsFound, accountsToSave, priorServices,
                   metricsRow, job, dataRest>>

\* saveSweepData: the upsert of the links (an error is thrown) and the
\* upsert of the breaches (its result is ignored)
SaveUpsert ==
    /\ dPc = "upsert"
    /\ \/ /\ sweepFails
          /\ UNCHANGED userServices
       \/ /\ userServices' = upsert(userServices, accountsToSave)
          /\ dPc' = "metrics"
          /\ UNCHANGED job
    /\ UNCHANGED <<clock, userSweeps, currentPlan, lastScanDate, isIncremental,
                   dateFilter, domainSummaries, filteredSummaries, lookup,
                   breaches, totalAccountsFound, accountsToSave, priorServices,
                   metricsRow, dataRest>>

\* recordSweepMetrics: an insert error is only logged
RecordMetrics ==
    /\ dPc = "metrics"
    /\ \/ UNCHANGED metricsRow
       \/ metricsRow' = [accounts_found |-> totalAccountsFound,
                         breaches_found |-> breaches,
                         is_incremental |-> isIncremental]
    /\ dPc' = "complete"
    /\ UNCHANGED <<clock, userSweeps, currentPlan, lastScanDate, isIncremental,
                   dateFilter, domainSummaries, filteredSummaries, lookup,
                   breaches, totalAccountsFound, accountsToSave, userServices,
                   priorServices, job, dataRest>>

\* the update of the job to completed
Completed ==
    /\ dPc = "complete"
    /\ job' = [status |-> "completed", services_found |-> totalAccountsFound,
               breaches_found |-> breaches]
    /\ dPc' = "completed"
    /\ UNCHANGED <<clock, userSweeps, currentPlan, lastScanDate, isIncremental,
                   dateFilter, domainSummaries, filteredSummaries, lookup,
                   breaches, totalAccountsFound, accountsToSave, userServices,
                   priorServices, metricsRow, dataRest>>

-----------------------------------------------------------------------------
(* summarizeByDomain (summarize-by-domain.ts) followed by the enrichment,   *)
(* the spam filter and the sort of processSweep.  A metadata entry is the   *)
(* address in its From header, as local part and host (NoDomain if the      *)
(* header holds no address), its subject, its internalDate and its Date     *)
(* header; a service id is the domain of its services row.  The services    *)
(* table holds the rows of every domain; its schema is not part of the      *)
(* sources, so an insert for a domain that has a row may add a second row   *)
(* or return an error.                                                       *)

MaxPairMeta == 1     \* most entries of the metadata list beside another sweep

MaxMeta == 3         \* most entries of the metadata list

NoAddress == [local |-> "", host |-> <<>>]      \* null / undefined

\* a Date header: empty, a text new Date() cannot parse, or a date
EmptyHeader == [text |-> "empty", at |-> NoDate]
InvalidHeader == [text |-> "invalid", at |-> NoDate]
HeaderDate(t) == [text |-> "rfc", at |-> t]

\* the metadata entries considered
MetaPool ==
    LET meta(l, h, s, i, d) ==
            [local |-> l, from |-> h, subject |-> s, internalDate |-> i,
             date |-> d]
        created == <<"Welcome", "to", "Spotify!", "Account", "created">>
        receipt == <<"Your", "receipt", "from", "Spotify">>
        reset == <<"Password", "reset", "for", "your", "Spotify", "account">>
    IN  {meta("noreply", <<"spotify", "com">>, created, 46, InvalidHeader),
         meta("support", <<"spotify", "com">>, receipt, 47, HeaderDate(47)),
         meta("privacy", <<"spotify", "com">>, reset, 45, HeaderDate(45)),
         meta("noreply", <<"mail", "spotify", "com">>, <<>>, NoDate,
              HeaderDate(47)),
         meta("noreply", <<"bank", "com">>, created, 47, HeaderDate(47)),
         meta("support", <<"bank", "com">>, receipt, 46, HeaderDate(46)),
         meta("noreply", <<"bank", "com">>, receipt, NoDate, EmptyHeader),
         meta("noreply", <<"shop", "com">>, receipt, 46, HeaderDate(46)),
         meta("noreply", <<"shop", "com">>, created, NoDate, InvalidHeader),
         meta("noreply", <<"sendgrid", "net">>, reset, 46, HeaderDate(46)),
         meta("", NoDomain, receipt, NoDate, InvalidHeader)}

\* the domains a services row may be about
ServiceDomains == {extractDomain(m.from) : m \in MetaPool} \ {NoDomain}

\* new Date(meta.date).toISOString(): a RangeError for an invalid date
dateThrows(meta) ==
    meta.internalDate = NoDate /\ meta.date.text = "invalid"

\* meta.internalDate || (meta.date ? new Date(meta.date).toISOString() : null)
isoOf(meta) ==
    IF meta.internalDate # NoDate THEN meta.internalDate
    ELSE IF meta.date.text = "empty" THEN NoDate
    ELSE meta.date.at

newGroup(d, meta) ==
    [domain |-> d, emailCount |-> 0, firstSeenAt |-> isoOf(meta),
     lastSeenAt |-> isoOf(meta), subjects |-> <<>>, fromAddresses |-> <<>>]

\* the body of the first loop from `agg.emailCount += 1` on
counted(agg, meta) ==
    [agg EXCEPT
       !.emailCount = @ + 1,
       !.subjects = IF meta.subject # <<>> THEN Append(@, meta.subject) ELSE @,
       !.fromAddresses = IF meta.from # NoDomain
                         THEN Append(@, [local |-> meta.local, host |-> meta.from])
                         ELSE @,
       !.firstSeenAt = IF isoOf(meta) # NoDate /\ (@ = NoDate \/ isoOf(meta) < @)
                       THEN isoOf(meta) ELSE @,
       !.lastSeenAt = IF isoOf(meta) # NoDate /\ (@ = NoDate \/ isoOf(meta) > @)
                      THEN isoOf(meta) ELSE @]

addMetaUngrouped(groups, meta) ==
    IF extractDomain(meta.from) = NoDomain THEN groups
    ELSE Append(groups, counted(newGroup(extractDomain(meta.from), meta), meta))

\* one round of the first loop
addMeta(groups, meta) ==
    LET d == extractDomain(meta.from)
        at == {k \in 1..Len(groups) : groups[k].domain = d}
    IN  IF d = NoDomain THEN groups
        ELSE IF at = {} THEN Append(groups, counted(newGroup(d, meta), meta))
        ELSE [k \in 1..Len(groups) |->
                 IF k \in at THEN counted(groups[k], meta) ELSE groups[k]]

\* the first pass: group by domain
RECURSIVE groupByDomain(_)
groupByDomain(list) ==
    IF list = <<>> THEN <<>>
    ELSE addMeta(groupByDomain(SubSeq(list, 1, Len(list) - 1)), list[Len(list)])

\* the first pass throws: an entry with a domain whose date is computed
\* from a header that is no date
firstPassThrows(list) ==
    \E k \in 1..Len(list) :
        extractDomain(list[k].from) # NoDomain /\ dateThrows(list[k])

\* /support|help|contact|service|customer/i and
\* /privacy|dpo|data.?protection/i on an address in lower case; the local
\* parts and labels used hold these words only as a whole
SupportWords == {"support", "help", "contact", "service", "customer"}
PrivacyWords == {"privacy", "dpo", "dataprotection", "data-protection"}

looksLike(words, addr) ==
    addr.local \in words \/ \E k \in 1..Len(addr.host) : addr.host[k] \in words

\* emails.find(...): the first address the pattern matches
find(words, addrs) ==
    LET at == {k \in 1..Len(addrs) : looksLike(words, addrs[k])}
    IN  IF at = {} THEN NoAddress
        ELSE addrs[CHOOSE k \in at : \A j \in at : k <= j]

extractContactEmails(fromAddresses) ==
    [support |-> find(SupportWords, fromAddresses),
     privacy |-> find(PrivacyWords, fromAddresses)]

generateContactEmails(d) ==
    [support |-> [local |-> "support", host |-> d],
     privacy |-> [local |-> "privacy", host |-> d]]

\* a || b on addresses
orElse(a, b) == IF a # NoAddress THEN a ELSE b

\* default_privacy_email of the row inserted for a group
defaultPrivacyEmail(agg) ==
    LET extracted == extractContactEmails(agg.fromAddresses)
        generated == generateContactEmails(agg.domain)
        supportEmail == orElse(extracted.support, generated.support)
        privacyEmail == orElse(extracted.privacy, generated.privacy)
    IN  orElse(privacyEmail, supportEmail)

\* supportEmail, privacyEmail and contactConfidence of the response
contactOf(agg) ==
    LET extracted == extractContactEmails(agg.fromAddresses)
        generated == generateContactEmails(agg.domain)
    IN  IF extracted.support # NoAddress \/ extracted.privacy # NoAddress
        THEN [supportEmail |-> extracted.support,
              privacyEmail |-> extracted.privacy, contactConfidence |-> "high"]
        ELSE [supportEmail |-> generated.support,
              privacyEmail |-> generated.privacy, contactConfidence |-> "low"]

\* results.push({domain, emailCount, ..., serviceId, ...})
pushed(list, agg, id) ==
    Append(list, [domain |-> agg.domain, serviceId |-> id,
                  subjects |-> agg.subjects, emailCount |-> agg.emailCount,
                  firstSeenAt |-> agg.firstSeenAt,
                  lastSeenAt |-> agg.lastSeenAt,
                  supportEmail |-> contactOf(agg).supportEmail,
                  privacyEmail |-> contactOf(agg).privacyEmail,
                  contactConfidence |-> contactOf(agg).contactConfidence])

\* .select("id").eq("domain", d).maybeSingle(): the row, no row, or an
\* error (always possible; the only answer when there are several rows)
SelectOutcomes(d) ==
    (IF Len(services[d]) = 1 THEN {"row"}
     ELSE IF services[d] = <<>> THEN {"none"} ELSE {})
    \cup {"error"}

\* (servicesError && servicesError.code === "PGRST116") || !service: with an
\* error `service` is null
serviceMissing(outcome) == outcome # "row"

\* a sweep of a metadata list of at most n entries begins; some services
\* have their row, created earlier
SumInputs(n) ==
    /\ aPc = "group"
    /\ metadataList \in UNION {[1..k -> MetaPool] : k \in 0..n}
    /\ map = <<>> /\ aResults = <<>> /\ ranked = <<>>
    /\ servicesError = FALSE
    /\ services \in {[d \in ServiceDomains |->
                          IF d \in had THEN <<NoAddress>> ELSE <<>>] :
                       had \in SUBSET {<<"spotify", "com">>, <<"bank", "com">>}}

\* one sweep
SumInit == SumInputs(MaxMeta) /\ oPc = "idle" /\ oDomain = NoDomain

\* the sweep, and the sweep of another user that is about to resolve the
\* service of the one domain of its mail
PairInit ==
    /\ SumInputs(MaxPairMeta)
    /\ oPc = "select"
    /\ oDomain \in {<<"spotify", "com">>, <<"shop", "com">>}

SumIdle ==
    /\ aPc = "idle"
    /\ metadataList = <<>> /\ map = <<>> /\ aResults = <<>> /\ ranked = <<>>
    /\ servicesError = FALSE
    /\ services = [d \in ServiceDomains |-> <<>>]
    /\ oPc = "idle" /\ oDomain = NoDomain

\* the entry of `map` the second loop is at (the keys of `map` are
\* distinct, so the serviceIds cache never holds the domain)
current == map[Len(aResults) + 1]

\* after results.push: the next entry, or the return of summarizeByDomain;
\* the locals of the loop body are gone
afterPush ==
    /\ aPc' = IF Len(aResults') = Len(map) THEN "rank" ELSE "select"
    /\ servicesError' = FALSE

\* summarizeByDomain is called: the first loop, up to the first await
Grouped ==
    /\ aPc = "group"
    /\ IF firstPassThrows(metadataList)
       THEN aPc' = "thrown" /\ UNCHANGED map
       ELSE /\ map' = groupByDomain(metadataList)
            /\ aPc' = IF groupByDomain(metadataList) = <<>> THEN "rank"
                      ELSE "select"
    /\ UNCHANGED <<metadataList, aResults, services, ranked, servicesError,
                   oPc, oDomain, sumRest>>

\* the services select settles
SelectService ==
    /\ aPc = "select"
    /\ \E o \in SelectOutcomes(current.domain) :
         /\ IF serviceMissing(o)
            THEN /\ aPc' = "insert"
                 /\ servicesError' = (o = "error")
                 /\ UNCHANGED aResults
            ELSE /\ aResults' = pushed(aResults, current, current.domain)
                 /\ afterPush
    /\ UNCHANGED <<metadataList, map, services, ranked, oPc, oDomain, sumRest>>

\* the services insert settles: the new row, or an error
InsertService ==
    /\ aPc = "insert"
    /\ \/ /\ services' = [services EXCEPT ![current.domain] =
                                   Append(@, defaultPrivacyEmail(current))]
          /\ aResults' = pushed(aResults, current, current.domain)
          /\ afterPush
       \/ /\ aPc' = "thrown"
          /\ UNCHANGED <<services, aResults, servicesError>>
    /\ UNCHANGED <<metadataList, map, ranked, oPc, oDomain, sumRest>>

\* enrichedSummaries, filteredSummaries and its sort
Rank ==
    /\ aPc = "rank"
    /\ ranked' = sortByConfidence(withoutSpam(enriched(aResults)))
    /\ aPc' = "ranked"
    /\ UNCHANGED <<metadataList, map, aResults, services, servicesError, oPc,
                   oDomain, sumRest>>

\* the services select of the other sweep settles
OtherSelect ==
    /\ oPc = "select"
    /\ \E o \in SelectOutcomes(oDomain) :
         oPc' = IF serviceMissing(o) THEN "insert" ELSE "done"
    /\ UNCHANGED <<aPc, metadataList, map, aResults, services, ranked,
                   servicesError, oDomain, sumRest>>

\* the services insert of the other sweep settles
OtherInsert ==
    /\ oPc = "insert"
    /\ \/ /\ services' = [services EXCEPT ![oDomain] =
                                   Append(@, generateContactEmails(oDomain).privacy)]
          /\ oPc' = "done"
       \/ /\ oPc' = "thrown"
          /\ UNCHANGED services
    /\ UNCHANGED <<aPc, metadataList, map, aResults, ranked, servicesError,
                   oDomain, sumRest>>

-----------------------------------------------------------------------------
(* Specifications                                                           *)

RetryIdle ==
    /\ rPc = "returned" /\ attempt = 0 /\ lastErr = NoError
    /\ rHist = <<>> /\ rSleeps = <<>>

TokenIdle ==
    /\ tPc = "returned" /\ callNo = 2 /\ now = 0
    /\ cred = [access |-> 0, expiry |-> 0, hasRefresh |-> FALSE,
               address |-> "user@gmail.com"]
    /\ gmailAccount = cred /\ accessToken = 0 /\ refreshed = NoRefreshed
    /\ newExpiry = 0 /\ nextTok = 1 /\ tErr = NoError
    /\ opTokens = <<>> /\ opErrs = <<>> /\ opResps = <<>>
    /\ proCount = 0 /\ reCount = 0 /\ lastPersist = "none"
    /\ prevTok = 0 /\ prevExp = 0

\* the job row while the metadata fetch of its sweep runs
ProgInit ==
    /\ reran = FALSE /\ landed = {} /\ jobProgress = 0
    /\ jStatus = "processing"

RestIdle == FetchIdle /\ ListIdle /\ CanonIdle /\ ScoreIdle /\ DataIdle /\ SumIdle
            /\ ProgInit

InitRetry == RetryInit /\ TokenIdle /\ SweepInit /\ RestIdle
NextRetry == RetryAttempt \/ RetryWake
SpecRetry == InitRetry /\ [][NextRetry]_vars

InitToken == RetryIdle /\ TokenInit /\ SweepInit /\ RestIdle
NextToken == EnsureValid \/ Exchange \/ Persist \/ FirstAttempt
             \/ SecondAttempt \/ NextCall \/ Tick
SpecToken == InitToken /\ [][NextToken]_vars

Init == RetryIdle /\ TokenIdle /\ SweepInit /\ RestIdle
Next ==
    \/ Enqueue
    \/ \E i \in Invs :
         \/ SelectJob(i) \/ GetUser(i) \/ NotifyNoUser(i) \/ MarkProcessing(i)
         \/ Load(i) \/ List(i) \/ Fetch(i) \/ Summarize(i) \/ Breaches(i)
         \/ Save(i) \/ Metrics(i) \/ MarkCompleted(i) \/ LastSweep(i)
         \/ NotifyOk(i) \/ EmailOk(i) \/ MarkFailed(i) \/ NotifyFail(i)
         \/ EmailFail(i)
Spec == Init /\ [][Next]_vars

\* the runs in which no two invocations of processNextJob overlap
NextSolo ==
    \/ Enqueue
    \/ \E i \in {1} :
         \/ SelectJob(i) \/ GetUser(i) \/ NotifyNoUser(i) \/ MarkProcessing(i)
         \/ Load(i) \/ List(i) \/ Fetch(i) \/ Summarize(i) \/ Breaches(i)
         \/ Save(i) \/ Metrics(i) \/ MarkCompleted(i) \/ LastSweep(i)
         \/ NotifyOk(i) \/ EmailOk(i) \/ MarkFailed(i) \/ NotifyFail(i)
         \/ EmailFail(i)
SpecSolo == Init /\ [][NextSolo]_vars
\* the interval keeps firing, every request is answered, and jobs keep
\* being enqueued while there is room
FairSolo == SpecSolo /\ WF_vars(NextSolo)

CoreIdle == RetryIdle /\ TokenIdle /\ SweepInit /\ ProgInit

InitFetch == CoreIdle /\ FetchInit /\ ListIdle /\ CanonIdle /\ ScoreIdle /\ DataIdle
          /\ SumIdle
NextFetch == FetchCall \/ BatchDelayWake
             \/ \E w \in Workers : Respond(w) \/ BackoffWake(w) \/ PauseWake(w)
SpecFetch == InitFetch /\ [][NextFetch]_vars
\* the metadata fetch inside withTokenRefresh and processSweep
NextRerun == NextFetch \/ Rerun \/ Land \/ Finish
SpecRerun == InitFetch /\ [][NextRerun]_vars
\* every request is answered and every timer fires
FairFetch == SpecFetch /\ WF_vars(NextFetch)

InitList == CoreIdle /\ FetchIdle /\ ListInit /\ CanonIdle /\ ScoreIdle /\ DataIdle
         /\ SumIdle
SpecList == InitList /\ [][ListPage]_vars

InitCanon == CoreIdle /\ FetchIdle /\ ListIdle /\ CanonInit /\ ScoreIdle /\ DataIdle
          /\ SumIdle
NextCanon == Canonicalize \/ CanonicalizeSame \/ Recanonicalize
SpecCanon == InitCanon /\ [][NextCanon]_vars

InitScore == CoreIdle /\ FetchIdle /\ ListIdle /\ CanonIdle /\ ScoreInit /\ DataIdle
          /\ SumIdle
NextScore == Score \/ ScoreReordered
SpecScore == InitScore /\ [][NextScore]_vars

InitScan == CoreIdle /\ FetchIdle /\ ListIdle /\ CanonIdle /\ ScoreIdle /\ ScanInit
         /\ SumIdle
NextScan == GetScanDate \/ ListQuery
SpecScan == InitScan /\ [][NextScan]_vars

InitData == CoreIdle /\ FetchIdle /\ ListIdle /\ CanonIdle /\ ScoreIdle /\ DataInit
         /\ SumIdle
NextData == GetScanDate \/ ListQuery \/ Summarized \/ Breached \/ SaveDelete
            \/ SaveUpsert \/ RecordMetrics \/ Completed
SpecData == InitData /\ [][NextData]_vars

InitSum == CoreIdle /\ FetchIdle /\ ListIdle /\ CanonIdle /\ ScoreIdle /\ DataIdle
           /\ SumInit
NextSum == Grouped \/ SelectService \/ InsertService \/ Rank
SpecSum == InitSum /\ [][NextSum]_vars

InitPair == CoreIdle /\ FetchIdle /\ ListIdle /\ CanonIdle /\ ScoreIdle /\ DataIdle
         /\ PairInit
NextPair == NextSum \/ OtherSelect \/ OtherInsert
SpecPair == InitPair /\ [][NextPair]_vars

-----------------------------------------------------------------------------
(* Properties of processNextJob / processSweep (checked under Spec)         *)

Terminal == {"completed", "failed"}

\* invocation i holds a job that no other invocation holds or has swept
SweepsAlone(i) ==
    /\ inv[i].job # 0
    /\ \A k \in Invs : k # i => inv[k].job # inv[i].job
    /\ ~jobs[inv[i].job].returned

\* invocation i has written status processing for its job
Claimed(i) ==
    inv[i].pc \notin {"idle", "getUser", "notifyNoUser", "markProcessing"}

\* the stages of the try block before the update to completed
StagesBeforeCompleted == {"load", "list", "fetch", "summarize", "breaches", "save"}

\* processSweep ends for invocation i in this step
SweepEnds(i) == inv[i].job # 0 /\ inv'[i].pc = "idle"

\* C1: once a sweep has written its job's status as completed or failed,
\* no later step of that sweep (it runs alone on the job) writes the status
\* with another value.
C1_TerminalStatusKept ==
    [][\A i \in Invs :
         (SweepsAlone(i) /\ jobs[inv[i].job].status \in Terminal)
            => jobs'[inv[i].job].status = jobs[inv[i].job].status]_vars

\* C2: no job is claimed by two invocations at once, and no job goes back
\* to processing after a run completed or failed it.
C2_SingleClaim ==
    [][/\ \A i, k \in Invs :
            (i # k /\ Claimed(i)' /\ Claimed(k)') => inv'[i].job # inv'[k].job
       /\ \A j \in Jobs :
            jobs[j].status \in Terminal => jobs'[j].status # "processing"]_vars

\* C3: a sweep that ends because the user (missing-user branch) or the
\* mailbox connection (error of the load stage) was not found leaves its
\* job failed, with a sweep_failed notification and no sweep results.
C3_PreconditionFailure ==
    [][\A i \in Invs :
         (SweepEnds(i) /\ (inv[i].pc = "notifyNoUser" \/ inv[i].err.stage = "load"))
            => /\ jobs'[inv[i].job].status = "failed"
               /\ notes'[inv[i].job].sweep_failed >= 1
               /\ written'[inv[i].job] = {}]_vars

\* C4: a sweep that ends after an error of a stage before the completed
\* transition leaves its job failed with an error detail stored and a
\* sweep_failed notification recorded.
C4_StageErrorFailsJob ==
    [][\A i \in Invs :
         (SweepEnds(i) /\ inv[i].err.stage \in StagesBeforeCompleted)
            => /\ jobs'[inv[i].job].status = "failed"
               /\ jobs'[inv[i].job].error \notin {"null", "{}"}
               /\ notes'[inv[i].job].sweep_failed >= 1]_vars

\* C5: a job for which processSweep has returned (normally or by throwing)
\* is never selected by a later processNextJob invocation.
C5_SweptAtMostOnce ==
    [][\A i \in Invs :
         (inv[i].pc = "idle" /\ inv'[i].pc = "getUser")
            => ~jobs[inv'[i].job].returned]_vars

\* the promise of invocation i settles in this step
Settles(i) == inv'[i] # inv[i] /\ inv'[i].pc = "idle"

\* C36: processNextJob never rejects; it resolves to false when the query
\* found no pending job and when an error was caught (from the job query
\* or from processSweep, the steps of its failure handler included), and
\* to true exactly when it had found a pending job and processSweep
\* returned.
C36_NeverRejects ==
    [][\A i \in Invs : Settles(i) =>
         /\ inv'[i].ret \in {"true", "false"}
         /\ inv'[i].out = "noJob" =>
               inv'[i].ret = "false" /\ inv[i].job = 0 /\ PendingJobs = {}
         /\ inv'[i].out = "threw" => inv'[i].ret = "false"
         /\ inv'[i].ret = "true" <=>
               /\ inv[i].job \in Jobs
               /\ inv[i].pc \in {"notifyNoUser", "emailOk", "emailFail"}
               /\ inv'[i].out = "returned"]_vars

\* the failure email of job 1's only sweep threw after the failed status
\* and the failure notification were written, and processNextJob has
\* resolved to false
C36_Witness ==
    /\ inv[1].pc = "idle" /\ inv[1].out = "threw" /\ inv[1].ret = "false"
    /\ jobs[1].status = "failed" /\ jobs[1].returned
    /\ notes[1] = [sweep_completed |-> 0, sweep_failed |-> 1]
    /\ jobs[2].status = "pending"

\* C37: a job in status pending is eventually in another status.
C37_PendingLeaves ==
    \A j \in Jobs : (jobs[j].status = "pending") ~> (jobs[j].status # "pending")

\* the notifications recorded for job j
Notifications(j) == notes[j].sweep_completed + notes[j].sweep_failed

\* C38: a job has at most one notification; a sweep_completed notification
\* belongs to a job whose status, once its sweep is over, is completed, and
\* a sweep_failed notification to one whose status is then failed.
C38_OneNotification ==
    \A j \in Jobs :
        /\ Notifications(j) <= 1
        /\ (jobs[j].returned /\ \A i \in Invs : inv[i].job # j) =>
              /\ notes[j].sweep_completed > 0 => jobs[j].status = "completed"
              /\ notes[j].sweep_failed > 0 => jobs[j].status = "failed"

\* C39: every progress update the store applies to the job carries a
\* percentage between 0 and 100 that is not below the one in the row, and
\* finds the job before its terminal transition; this includes the updates
\* of a metadata fetch that withTokenRefresh runs again after an auth error.
C39_ProgressMonotone ==
    [][landed' # landed =>
         /\ jobProgress' \in 0..100
         /\ jobProgress' >= jobProgress
         /\ jStatus = "processing"]_vars

-----------------------------------------------------------------------------
(* Properties of withTokenRefresh (checked under SpecToken)                 *)

\* C6: fn is invoked at most twice; a second invocation follows an auth
\* error of the first with a refresh token present and exactly one reactive
\* exchange, and uses the token that exchange returned; an error of the
\* second invocation, an auth error without refresh token and a non-auth
\* error all propagate without (another) refresh or retry.
C6_AtMostOneRetry ==
    /\ Len(opTokens) <= 2
    /\ reCount <= 1
    /\ Len(opTokens) = 2 =>
         /\ isGmailAuthError(opErrs[1])
         /\ gmailAccount.hasRefresh
         /\ reCount = 1
         /\ opTokens[2] = refreshed.access_token
         /\ opTokens[2] # opTokens[1]
    /\ Len(opErrs) = 2 /\ opErrs[2] # NoError =>
         /\ tPc = "thrown"
         /\ tErr = opErrs[2]
    /\ (/\ Len(opErrs) >= 1
        /\ opErrs[1] # NoError
        /\ ~(isGmailAuthError(opErrs[1]) /\ gmailAccount.hasRefresh)) =>
         /\ tPc = "thrown"
         /\ tErr = opErrs[1]
         /\ reCount = 0
         /\ Len(opTokens) = 1

\* the second invocation of fn failed and its error left withTokenRefresh
C6_Witness ==
    /\ tPc = "thrown"
    /\ Len(opErrs) = 2
    /\ reCount = 1
    /\ tErr = opErrs[2]

\* C7: a list request rejected for invalid or expired credentials, with a
\* refresh token in the credential record, reaches withTokenRefresh as an
\* auth error and leads to one refresh.
C7_ListAuthErrorRefreshes ==
    (/\ callNo = 1
     /\ Len(opErrs) >= 1
     /\ isListAuthFailure(opResps[1])
     /\ gmailAccount.hasRefresh)
        => (isGmailAuthError(opErrs[1]) /\ reCount = 1)

\* C8: after a credential write that failed the call is aborted: fn is not
\* invoked with the token that was not saved.
C8_NoRetryWithUnsavedToken ==
    lastPersist = "failed" => tPc = "thrown"

\* C9: in the metadata call that follows a refresh made during the listing
\* call, fn is first invoked with the most recently refreshed token, and no
\* proactive exchange is made while that token has not expired.
C9_RefreshedTokenReused ==
    (callNo = 2 /\ prevTok # 0) =>
        /\ tPc = "op1" => opTokens[1] = refreshed.access_token
        /\ prevExp >= now => proCount = 0

\* the credential record in the store has an expiry in the past and a
\* refresh token
StoredExpired == cred.expiry # 0 /\ cred.expiry < now /\ cred.hasRefresh

\* C23: when withTokenRefresh starts with the stored expiry in the past and
\* a refresh token present, it exchanges the token before it invokes fn, and
\* the first invocation of fn uses the exchanged token, whose value and new
\* expiry are in the credential record by then; when the stored expiry is
\* absent or not in the past, or there is no refresh token, fn is invoked
\* with the stored token and no proactive exchange is made.
C23_ProactiveRefresh ==
    [][/\ tPc = "ensure" /\ tPc' # "ensure" =>
            IF StoredExpired
            THEN tPc' = "proExchange" /\ opTokens' = <<>>
            ELSE tPc' = "op1" /\ proCount' = 0 /\ opTokens' = <<cred.access>>
       /\ tPc = "proPersist" /\ tPc' = "op1" =>
            /\ opTokens' = <<refreshed.access_token>>
            /\ cred'.access = refreshed.access_token
            /\ cred'.expiry = newExpiry
      ]_vars

\* the columns of the credential record that the two updates do not name
KeptColumns == DOMAIN cred \ {"access", "expiry"}

\* C34: the credential record is never deleted and is written only by the
\* update that follows a token exchange; that update sets the access token
\* and the expiry together, to the token and the expiry of that exchange,
\* and every step leaves the refresh token and the mailbox address as they
\* were.
C34_CredentialWrites ==
    [][/\ DOMAIN cred' = DOMAIN cred
       /\ \A col \in KeptColumns : cred'[col] = cred[col]
       /\ cred' # cred =>
            /\ tPc \in {"proPersist", "rePersist"}
            /\ cred'.access = accessToken
            /\ cred'.expiry = newExpiry
            /\ accessToken = refreshed.access_token]_vars

\* a refreshed token and its expiry are in the record, next to the refresh
\* token and the address it had
C34_Witness ==
    /\ lastPersist = "ok"
    /\ cred.access = refreshed.access_token /\ cred.access # 0
    /\ cred.expiry = newExpiry /\ cred.expiry # gmailAccount.expiry
    /\ cred.hasRefresh /\ cred.address = gmailAccount.address

-----------------------------------------------------------------------------
(* Properties of retryWithBackoff (checked under SpecRetry)                 *)

BackoffDelays == <<1000, 2000, 4000, 8000>>

\* HTTP 429, or 403 with a quota-exceeded status
RateLimitSignal(resp) ==
    \/ resp.http = 429
    \/ resp.http = 403 /\ resp.bodyStatus = "RESOURCE_EXHAUSTED"

AlwaysRateLimited == \A k \in 1..Len(rHist) : RateLimitSignal(rHist[k])

QuotaSignal(resp) ==
    \/ resp.http = 429
    \/ resp.http = 403 /\ (resp.bodyStatus = "RESOURCE_EXHAUSTED"
                            \/ "Quota" \in resp.text)

\* C26: a failed attempt of a metadata request is followed by a backoff
\* sleep and another attempt exactly if the response was a rate-limit
\* signal (and the attempt was not the last one allowed); after any other
\* failure the error is raised at once.
C26_RetryOnRateLimitOnly ==
    \A k \in 1..Len(rHist) :
        /\ k <= Len(rSleeps) => QuotaSignal(rHist[k])
        /\ QuotaSignal(rHist[k]) /\ k < maxRetries => k <= Len(rSleeps)

-----------------------------------------------------------------------------
(* Properties of the metadata fetcher (checked under SpecFetch / FairFetch) *)

\* the identifiers already answered with an auth error
AuthIds == {id \in 1..total : out[id] = "auth"}

\* number of entries of a sequence equal to x
Count(seq, x) == Cardinality({k \in 1..Len(seq) : seq[k] = x})

\* C11: an auth error on a metadata request is raised at once, with no
\* backoff sleep and no further attempt of that request; the batch and
\* fetchMetadataForMessages reject with the auth error (the first one
\* raised), whatever the other workers' requests do; the loop offset stays
\* at the aborted batch, that batch reports no progress and adds no result,
\* and nothing of this changes afterwards.
C11_AuthErrorAbortsFetch ==
    [][/\ \A id \in 1..total : out'[id] = "auth" =>
             /\ \E w \in Workers : /\ wk'[w].pc = "threw"
                                   /\ fI' + wk'[w].i + 1 = id
             /\ fPc' = "thrown"
             /\ fErr'.id = authOrder'[1]
             /\ isGmailAuthError(fErr'.err)
             /\ fI' < id /\ id <= fI' + BATCH_SIZE
             /\ Len(progress') = fI' \div BATCH_SIZE
             /\ \A k \in 1..Len(results') : results'[k] <= fI'
       /\ \A w \in Workers : wk[w].pc = "threw" => wk'[w] = wk[w]
       /\ fPc = "thrown" => UNCHANGED <<fPc, fI, fErr, progress, results>>
      ]_vars

\* the first batch was aborted by an auth error while another request of it
\* failed without one and a third succeeded; a later batch was still due
C11_Witness ==
    /\ fPc = "thrown" /\ fI = 0 /\ total > BATCH_SIZE
    /\ \A w \in Workers : wk[w].pc \in {"done", "threw"}
    /\ \E a, b, c \in 1..BATCH_SIZE :
         /\ out[a] = "auth"
         /\ out[b] \in {"failed", "exhausted"}
         /\ out[c] = "ok"

\* C20: without an auth error the call terminates; every identifier has
\* then been requested, the returned list holds exactly one entry for each
\* identifier whose request succeeded, and none for an identifier whose
\* request failed or ran out of rate-limit retries.
C20_FailuresIsolated ==
    /\ [](fPc # "thrown" \/ AuthIds # {})
    /\ [](fPc = "returned" =>
            \A id \in 1..total :
                /\ out[id] # "none"
                /\ Count(results, id) = IF out[id] = "ok" THEN 1 ELSE 0)
    /\ <>(fPc = "returned" \/ AuthIds # {})

\* a call over two batches returned; in the first batch one request failed
\* and one ran out of retries, and requests of both batches succeeded
C20_Witness ==
    /\ fPc = "returned" /\ total > BATCH_SIZE
    /\ \E a, b, c \in 1..BATCH_SIZE :
         /\ out[a] = "failed" /\ out[b] = "exhausted" /\ out[c] = "ok"
    /\ out[total] = "ok"

\* the identifiers a worker has taken and not yet stored or given up
Held ==
    {fI + wk[w].i + 1 :
        w \in {v \in Workers : wk[v].pc \in {"request", "backoff", "threw"}}}

\* the identifiers with a stored result in the running batch
Stored == {batchResults[k] : k \in 1..Len(batchResults)}

\* C27: at any moment of a batch, under every interleaving of the workers,
\* at most CONCURRENCY requests are in flight; every position below the
\* shared cursor was taken by exactly one worker (no two workers hold the
\* same identifier, none is stored twice, none is both stored and given
\* up) and no position was passed over; when the batch has settled the
\* cursor is at its end, so no identifier of the batch was skipped.
C27_CursorTakenOnce ==
    /\ Cardinality({w \in Workers : wk[w].pc = "request"}) <= CONCURRENCY
    /\ \A w, v \in Workers :
          w # v /\ wk[w].pc # "done" /\ wk[v].pc # "done" => wk[w].i # wk[v].i
    /\ \A a, b \in 1..Len(batchResults) :
          batchResults[a] = batchResults[b] => a = b
    /\ Held \cap (Stored \cup errors) = {}
    /\ Stored \cap errors = {}
    /\ Held \cup Stored \cup errors = (fI + 1)..(fI + index)
    /\ \A w \in Workers : wk[w].pc = "pause" => fI + wk[w].i + 1 \in Stored
    /\ fPc \in {"delay", "returned"} /\ total > 0 =>
          /\ index = batchLen(fI)
          /\ Held = {}
          /\ Len(batchResults) + Cardinality(errors) = batchLen(fI)

\* a full batch settled: the workers took every identifier between them,
\* some stored and some given up
C27_Witness ==
    /\ fPc \in {"delay", "returned"}
    /\ index = BATCH_SIZE /\ BATCH_SIZE > CONCURRENCY
    /\ errors # {} /\ Len(batchResults) >= 2
    /\ Len(batchResults) + Cardinality(errors) = BATCH_SIZE

\* the identifiers of the first k batches
ProcessedAfter(k) == IF k * BATCH_SIZE < total THEN k * BATCH_SIZE ELSE total

\* the batches that have settled without a rethrow
BatchesSettled ==
    IF total = 0 THEN 0
    ELSE (fI \div BATCH_SIZE) + (IF fPc \in {"delay", "returned"} THEN 1 ELSE 0)

\* C28: a batch holds at most BATCH_SIZE identifiers; a worker is running
\* only while fetchMetadataForMessages waits for its batch, so the next
\* batch starts only after every worker of this one has finished; every
\* settled batch has reported progress exactly once, with the number of
\* identifiers processed so far and the total, and the report after the
\* last batch says total of total, 100 percent.
C28_BatchesInSequence ==
    /\ batchLen(fI) <= BATCH_SIZE /\ index <= batchLen(fI)
    /\ (\E w \in Workers : wk[w].pc # "done") => fPc \in {"wait", "thrown"}
    /\ Len(progress) = BatchesSettled
    /\ \A k \in 1..Len(progress) :
          /\ progress[k].messagesProcessed = ProcessedAfter(k)
          /\ progress[k].totalMessages = total
    /\ fPc = "returned" /\ total > 0 =>
          /\ progress[Len(progress)].messagesProcessed = total
          /\ progress[Len(progress)].percentage = 100

-----------------------------------------------------------------------------
(* Properties of listEmails (checked under SpecList)                        *)

\* C12: the sequence listEmails returns holds no identifier twice, whatever
\* pages the provider returned and whether or not the fallback query ran.
C12_ListedOnce ==
    lPc = "returned" =>
        \A a, b \in 1..Len(listed) : listed[a] = listed[b] => a = b

\* C24: a listing query issues at most MAX_PAGES list requests and returns
\* at most MAX_PAGES * PAGE_SIZE identifiers; it asks for a further page only
\* after a page that was not empty and carried a continuation cursor;
\* listEmails runs at most two queries, so it ends after at most
\* 2 * MAX_PAGES requests even if every page carries a cursor.
C24_PagesCapped ==
    /\ Len(queries) <= 2
    /\ \A q \in 1..Len(queries) :
          /\ queries[q].requests <= MAX_PAGES
          /\ Len(queries[q].result) <= MAX_PAGES * PAGE_SIZE
    /\ lPc \in {"keyword", "sender"} =>
          /\ pageCount + 1 <= MAX_PAGES
          /\ Len(queries) = (IF lPc = "keyword" THEN 0 ELSE 1)
          /\ pageCount > 0 => lastPage.size > 0 /\ lastPage.cursor
    /\ lPc = "returned" => Len(queries) >= 1

\* a non-success response that neither fetchMessageIds nor withTokenRefresh
\* takes for a credential failure
OtherListFailure(resp) ==
    /\ ~isOk(resp)
    /\ resp.http # 401
    /\ resp.text \cap {"Invalid Credentials", "UNAUTHENTICATED", "invalid_grant"} = {}

C24_Witness ==
    /\ lPc = "returned" /\ Len(queries) = 2
    /\ queries[1].requests = MAX_PAGES /\ queries[2].requests = MAX_PAGES
    /\ lastPage.cursor /\ lastPage.size > 0
    /\ Len(queries[2].result) < MAX_PAGES * PAGE_SIZE

-----------------------------------------------------------------------------
(* Properties of the canonicalization (checked under SpecCanon)             *)

\* C13: canonicalization is idempotent: the domain extracted from an
\* address at a domain that extractDomain returned is that same domain.
C13_CanonIdempotent ==
    cPc = "done" /\ domain # NoDomain => again = domain

\* C21: an address at facebookmail.com gives facebook.com, one at
\* announce.airtimetools.com gives airtimetools.com and one at
\* mail.netflix.com gives netflix.com; a second call with the same address
\* gives the same domain as the first.
C21_CanonExamples ==
    /\ cPc # "address" =>
          /\ host = <<"facebookmail", "com">> => domain = <<"facebook", "com">>
          /\ host = <<"announce", "airtimetools", "com">>
                => domain = <<"airtimetools", "com">>
          /\ host = <<"mail", "netflix", "com">> => domain = <<"netflix", "com">>
    /\ cPc = "called twice" => same = domain

\* the exact alias of facebookmail.com was extracted, twice
C21_Witness ==
    /\ cPc = "called twice" /\ host = <<"facebookmail", "com">>
    /\ domain = <<"facebook", "com">> /\ same = domain

-----------------------------------------------------------------------------
(* Properties of the scoring (checked under SpecScore)                      *)

\* C14: the confidence score and the spam verdict of a summary do not
\* depend on the order of its collected subjects.
C14_ScoreOrderFree ==
    sPc = "done" => verdictR = verdict

\* the subject signal n fires on the subjects of `summary`
Fires(n) == test(SubjectSignals[n].p, allSubjects(summary.subjects))

\* the sender / domain signal and the company domain signal on `summary`
AutomatedSender ==
    \E k \in 1..Len(summary.domain) :
        summary.domain[k] \in {"noreply", "no-reply", "notifications", "accounts"}
CompanyDomain ==
    summary.domain \notin {<<m, "com">> : m \in {"gmail", "yahoo", "hotmail",
                                                   "outlook", "aol", "icloud"}}

\* the volume bonus of an email count
Bonus(n) ==
    CASE n >= 20 -> 6 [] n >= 10 /\ n < 20 -> 4 [] n >= 5 /\ n < 10 -> 2
      [] n >= 2 /\ n < 5 -> 1 [] OTHER -> 0

-----------------------------------------------------------------------------
(* Properties of the data path (checked under SpecScan / SpecData)          *)

CompletedSweeps == {r \in userSweeps : r.status = "completed"}

\* the completed sweep that finished last, and the one that started last
FinishedLast ==
    CHOOSE r \in CompletedSweeps :
        \A q \in CompletedSweeps : q.completed_at <= r.completed_at
StartedLast ==
    CHOOSE r \in CompletedSweeps :
        \A q \in CompletedSweeps : q.started_at <= r.started_at

Limited == dPc \in {"delete", "upsert", "metrics", "complete", "completed"}
\* the sweep is past saveSweepData
Saved == dPc \in {"metrics", "complete", "completed"}

\* the number of surviving candidates a sweep of this plan persists
Persisted(n) ==
    IF currentPlan = "pro" \/ n < FreeLimit THEN n ELSE FreeLimit

\* C16: with n surviving candidates, ranked by descending score, a free
\* sweep persists exactly the first min(limit, n) of them and a pro sweep
\* all n; services_found on the job and in the metrics is n; no candidate
\* left out has a higher score than a persisted one.
C16_PlanLimit ==
    LET n == Len(filteredSummaries)
        m == Persisted(n)
    IN  Limited =>
        /\ \A a, b \in 1..n :
               a < b => filteredSummaries[a].confidence
                          >= filteredSummaries[b].confidence
        /\ accountsToSave = SubSeq(filteredSummaries, 1, m)
        /\ \A a \in 1..m : \A b \in (m + 1)..n :
               filteredSummaries[a].confidence >= filteredSummaries[b].confidence
        /\ totalAccountsFound = n
        /\ metricsRow # NoMetrics => metricsRow.accounts_found = n
        /\ dPc = "completed" => job.services_found = n
        /\ Saved =>
             \A k \in 1..n :
                 userServices[filteredSummaries[k].serviceId] =
                     IF k <= m THEN linkOf(filteredSummaries[k])
                     ELSE IF isIncremental
                          THEN priorServices[filteredSummaries[k].serviceId]
                     ELSE NoLink

\* a completed free sweep with more survivors than the limit, the last
\* persisted one scoring higher than the first one left out
C16_Witness ==
    /\ dPc = "completed" /\ currentPlan = "free"
    /\ Len(filteredSummaries) > FreeLimit
    /\ Len(accountsToSave) = FreeLimit
    /\ filteredSummaries[FreeLimit].confidence
         > filteredSummaries[FreeLimit + 1].confidence
    /\ job.services_found = Len(filteredSummaries)

\* the summaries of this sweep with serviceId d
Observed(list, d) == {k \in 1..Len(list) : list[k].serviceId = d}

\* C17: after a completed full sweep the user's links are exactly those of
\* the persisted candidates; after a completed incremental sweep the link
\* of a service not observed is unchanged, and the link of a persisted
\* service keeps at least the email count and the first-seen instant it
\* had.
C17_LinksAfterSweep ==
    dPc = "completed" =>
        \A d \in DomainPool :
            IF ~isIncremental
            THEN userServices[d] =
                   IF Observed(accountsToSave, d) # {}
                   THEN linkOf(accountsToSave[CHOOSE k \in Observed(accountsToSave, d) : TRUE])
                   ELSE NoLink
            ELSE /\ Observed(domainSummaries, d) = {} =>
                       userServices[d] = priorServices[d]
                 /\ Observed(accountsToSave, d) # {} /\ priorServices[d] # NoLink =>
                       /\ userServices[d].email_count >= priorServices[d].email_count
                       /\ userServices[d].first_seen_at <= priorServices[d].first_seen_at

\* the positions of the summaries the spam filter does not hold for
NotSpam == {k \in 1..Len(domainSummaries) : ~isLikelySpam(domainSummaries[k])}

\* C18: no summary the spam filter holds for is among the candidates to
\* save, is counted in services_found, or gets its link written, whatever
\* its score; the plan limit applies to what the filter left.
C18_SpamNeverPersisted ==
    Limited =>
        /\ \A k \in 1..Len(accountsToSave) : ~isLikelySpam(accountsToSave[k])
        /\ totalAccountsFound = Cardinality(NotSpam)
        /\ Len(accountsToSave) = Persisted(Cardinality(NotSpam))
        /\ dPc = "completed" => job.services_found = Cardinality(NotSpam)
        /\ \A k \in 1..Len(domainSummaries) :
               isLikelySpam(domainSummaries[k]) =>
                   userServices[domainSummaries[k].serviceId]
                       \in {NoLink, priorServices[domainSummaries[k].serviceId]}

\* a completed free sweep found more summaries than the limit; one of them
\* is spam by its subjects, another spam by its domain and scores higher
\* than a persisted candidate; the limit is filled from the rest
C18_Witness ==
    /\ dPc = "completed" /\ currentPlan = "free"
    /\ Len(domainSummaries) > FreeLimit
    /\ Len(accountsToSave) = Cardinality(NotSpam)
    /\ \E k \in 1..Len(domainSummaries) :
         /\ isLikelySpam(domainSummaries[k])
         /\ domainSummaries[k].domain = <<"sendgrid", "net">>
         /\ \E a \in 1..Len(accountsToSave) :
              calculateConfidenceScore(domainSummaries[k])
                  > accountsToSave[a].confidence
    /\ \E k \in 1..Len(domainSummaries) :
         /\ isLikelySpam(domainSummaries[k])
         /\ domainSummaries[k].domain # <<"sendgrid", "net">>

\* C19: a breach lookup that ends in not-found, in another non-success
\* response or in a transport failure of the request gives an empty breach
\* list and does not fail the sweep; if the sweep completes, the job has
\* breaches_found = 0.
C19_LookupFailureTolerated ==
    [][/\ dPc = "breaches" /\ lookup' \in {"notFound", "httpError", "transport"}
          => dPc' # "failed" /\ breaches' = 0
       /\ dPc' = "completed" /\ lookup' \in {"notFound", "httpError", "transport"}
          => job'.breaches_found = 0
      ]_vars

-----------------------------------------------------------------------------
(* Properties of the aggregation (checked under SpecSum)                    *)

\* the metadata list is three messages from spotify.com, one with the
\* welcome / account created subject, one with the receipt subject and one
\* with the password reset subject
SpotifyScenario ==
    /\ Len(metadataList) = 3
    /\ \A k \in 1..3 : metadataList[k].from = <<"spotify", "com">>
    /\ \A k, l \in 1..3 : metadataList[k].subject = metadataList[l].subject
                             => k = l

\* C22: for three messages from spotify.com with welcome / account created,
\* receipt and password reset subjects, summarizeByDomain returns exactly
\* one group, with domain spotify.com and email count 3; its confidence
\* holds the onboarding (10), security (8) and transactional (7) weights and
\* is not zero, and spotify.com has a services row from then on.
C22_SpotifyScenario ==
    SpotifyScenario /\ aPc \in {"rank", "ranked"} =>
        /\ Len(aResults) = 1
        /\ aResults[1].domain = <<"spotify", "com">>
        /\ aResults[1].emailCount = 3
        /\ services[<<"spotify", "com">>] # <<>>
        /\ LET text == allSubjects(aResults[1].subjects)
           IN  /\ test(SubjectSignals[1].p, text)
               /\ test(SubjectSignals[3].p, text)
               /\ test(SubjectSignals[4].p, text)
        /\ calculateConfidenceScore(aResults[1]) >= 10 + 8 + 7
        /\ aPc = "ranked" =>
             /\ Len(ranked) = 1
             /\ ranked[1].domain = <<"spotify", "com">>
             /\ ranked[1].confidence >= 10 + 8 + 7
             /\ ranked[1].confidence # 0

\* the scenario ran to the ranking: one group of three messages, first seen
\* at the earliest and last seen at the latest of their instants
C22_Witness ==
    /\ SpotifyScenario /\ aPc = "ranked"
    /\ Len(ranked) = 1 /\ ranked[1].emailCount = 3
    /\ ranked[1].serviceId = <<"spotify", "com">>
    /\ ranked[1].firstSeenAt = 45 /\ ranked[1].lastSeenAt = 47


\* the place in the metadata list where domain d is first seen
FirstSeen(d) ==
    CHOOSE k \in 1..Len(metadataList) :
        /\ extractDomain(metadataList[k].from) = d
        /\ \A j \in 1..(k - 1) : extractDomain(metadataList[j].from) # d

\* C30: the candidates that survive the spam filter are ordered by
\* non-increasing confidence, and two candidates of equal confidence stay in
\* the order in which their domains were first seen in the metadata list.
C30_RankedStable ==
    aPc = "ranked" =>
        /\ \A k \in 1..Len(ranked) : ~isLikelySpam(ranked[k])
        /\ \A a, b \in 1..Len(ranked) :
              a < b =>
                /\ ranked[a].confidence >= ranked[b].confidence
                /\ ranked[a].confidence = ranked[b].confidence =>
                      FirstSeen(ranked[a].domain) < FirstSeen(ranked[b].domain)

\* a domain seen first is overtaken by two later ones of equal confidence,
\* which stay in the order they were seen
C30_Witness ==
    /\ aPc = "ranked" /\ Len(ranked) = 3
    /\ ranked[1].confidence = ranked[2].confidence
    /\ ranked[2].confidence > ranked[3].confidence
    /\ FirstSeen(ranked[3].domain) = 1
    /\ FirstSeen(ranked[1].domain) = 2
    /\ FirstSeen(ranked[2].domain) = 3


\* C31: a services lookup that returns an error, and a services insert that
\* returns an error, end the sweep in the thrown error with no further
\* call; after a lookup error no insert for the domain is attempted.
C31_ResolutionErrorsFatal ==
    [][/\ servicesError' => aPc' = "thrown"
       /\ aPc = "insert" /\ services' = services => aPc' = "thrown"
       /\ aPc = "thrown" => aPc' = "thrown"
      ]_vars

\* C32 (checked under SpecPair): every domain has at most one services
\* row in every state, whatever two sweeps that resolve the same domain do;
\* a row is inserted only for a domain that has none; a sweep looks a
\* domain up only once.
C32_OneServicePerDomain ==
    [][/\ \A d \in ServiceDomains :
            /\ Len(services'[d]) <= 1
            /\ services'[d] # services[d] => services[d] = <<>>
       /\ aPc = "select" =>
            \A k \in 1..Len(aResults) : aResults[k].domain # current.domain
      ]_vars


\* the entries of the metadata list that canonicalize to domain d
EntriesOf(list, d) == {k \in 1..Len(list) : extractDomain(list[k].from) = d}

\* the instant of a metadata entry: the provider's, else the one its Date
\* header gives; NoDate if there is neither
Instant(meta) ==
    IF meta.internalDate # NoDate THEN meta.internalDate
    ELSE IF meta.date.text = "rfc" THEN meta.date.at
    ELSE NoDate

\* the instants of the entries of domain d
InstantsOf(list, d) ==
    {Instant(list[k]) : k \in EntriesOf(list, d)} \ {NoDate}

\* groups is the grouping of list: one group for every domain that occurs,
\* with the number of its entries and the first and the last of their
\* instants
IsGrouping(groups, list) ==
    LET occurring == {extractDomain(list[k].from) : k \in 1..Len(list)}
                         \ {NoDomain}
    IN  /\ \A k \in 1..Len(groups) : groups[k].domain \in occurring
        /\ \A d \in occurring :
              \E k \in 1..Len(groups) :
                  /\ groups[k].domain = d
                  /\ \A j \in 1..Len(groups) : groups[j].domain = d => j = k
                  /\ groups[k].emailCount = Cardinality(EntriesOf(list, d))
                  /\ IF InstantsOf(list, d) = {}
                     THEN /\ groups[k].firstSeenAt = NoDate
                          /\ groups[k].lastSeenAt = NoDate
                     ELSE /\ groups[k].firstSeenAt \in InstantsOf(list, d)
                          /\ groups[k].lastSeenAt \in InstantsOf(list, d)
                          /\ \A t \in InstantsOf(list, d) :
                                groups[k].firstSeenAt <= t
                                    /\ t <= groups[k].lastSeenAt
                          /\ groups[k].firstSeenAt <= groups[k].lastSeenAt

RECURSIVE TotalCount(_)
TotalCount(groups) ==
    IF groups = <<>> THEN 0
    ELSE groups[1].emailCount + TotalCount(Tail(groups))

\* the list in every order
Orderings(list) ==
    {[k \in 1..Len(list) |-> list[f[k]]] :
        f \in {g \in [1..Len(list) -> 1..Len(list)] :
                 \A a, b \in 1..Len(list) : g[a] = g[b] => a = b}}

\* what the claim speaks of in a group
Counts(groups) ==
    {<<groups[k].domain, groups[k].emailCount, groups[k].firstSeenAt,
       groups[k].lastSeenAt>> : k \in 1..Len(groups)}

\* C33: once the first pass of summarizeByDomain is over, there is exactly
\* one group for every canonical domain occurring in the metadata list, its
\* count is the number of entries of the domain, the counts add up to the
\* number of entries with a domain, first-seen and last-seen are the least
\* and the greatest instant of the entries with first-seen <= last-seen, and
\* every permutation of the list gives the same counts and instants.
C33_GroupsPerDomain ==
    aPc # "group" =>
        /\ IsGrouping(map, metadataList)
        /\ TotalCount(map) =
              Cardinality({k \in 1..Len(metadataList) :
                             extractDomain(metadataList[k].from) # NoDomain})
        /\ \A p \in Orderings(metadataList) :
              Counts(groupByDomain(p)) = Counts(map)

\* C40: the first pass of summarizeByDomain never throws; an entry with no
\* internalDate whose Date header is empty or no date is counted in its
\* group, and the group's first-seen and last-seen are those of its other
\* entries.
C40_NoErrorFromDates ==
    [][aPc = "group" =>
         /\ aPc' # "thrown"
         /\ \A k \in 1..Len(metadataList) :
               /\ Instant(metadataList[k]) = NoDate
               /\ extractDomain(metadataList[k].from) # NoDomain
               => IsGrouping(map', metadataList)
      ]_vars


\* the addresses observed in a group's mail whose local part is a support
\* or a privacy alias
ObservedAliases(agg) ==
    {agg.fromAddresses[k] : k \in 1..Len(agg.fromAddresses)}
        \cap {[local |-> l, host |-> h] :
                l \in SupportWords \cup PrivacyWords,
                h \in {agg.fromAddresses[k].host : k \in 1..Len(agg.fromAddresses)}}

\* C35: the services row created for a group has as its default contact
\* address an observed support or privacy alias if the group's mail holds
\* one, and support@domain or privacy@domain only if it holds none; the
\* group's contact confidence is high if the address used was observed and
\* low if not.
C35_ContactAddress ==
    [][aPc = "insert" /\ services' # services =>
         LET row == services'[current.domain][Len(services'[current.domain])]
             group == aResults'[Len(aResults')]
         IN  /\ ObservedAliases(current) # {} => row \in ObservedAliases(current)
             /\ ObservedAliases(current) = {} =>
                   row \in {generateContactEmails(current.domain).support,
                            generateContactEmails(current.domain).privacy}
             /\ group.contactConfidence =
                   IF row \in ObservedAliases(current) THEN "high" ELSE "low"
      ]_vars

=============================================================================
